---- MODULE Spec2Model ----
(***************************************************************************)
(* A model of backend/review_processor.py: the ReviewProcessor pipeline    *)
(* (concatenate, clean, summarize, batch processing) and the structured    *)
(* extractor (JSON extraction from the model response, validation against  *)
(* the fixed schema).                                                      *)
(*                                                                         *)
(* Representation.  A Python str is the sequence of its Unicode code       *)
(* points; Chars("...") writes one from an ASCII literal.  A Python value  *)
(* (what json.loads returns, what a record holds) is a record              *)
(* [t, s, n, keys, vals]: t is the type tag, s the str payload, n the      *)
(* int/bool payload, vals the list elements or the dict values, and keys   *)
(* the dict keys (each a str) in insertion order.                          *)
(***************************************************************************)
EXTENDS Integers, Sequences, FiniteSets, TLC

VARIABLES
    \* the structured extractor
    op,            \* the entry point called, "idle" before a call
    summary,       \* the summary passed to extract_structured_info
    outcome,       \* what the endpoint call did
    path,          \* the return statement the call took
    info,          \* the value passed to _validate_structured_info
    ret,           \* the value returned (None when the call raised)
    raised,        \* TRUE when the entry point raised to its caller
    \* process_multiple_reviews
    reviews,       \* the argument `reviews`
    summarize,     \* the argument `summarize`
    pc,            \* "loop": between records, "call": waiting for the endpoint,
                   \* "done": returned ("idle" while the extractor is exercised)
    idx,           \* the position of the record being processed, from 1
    processed_reviews,  \* the list `processed_reviews`
    replies,       \* what the endpoint did for each record so far (NoCall if not contacted)
    calls,         \* the number of requests sent to the endpoint
    \* clean_text and summarize_with_ollama, called directly
    fn,            \* the function called, "idle" before a call
    arg,           \* the argument `text`
    limit,         \* the argument `max_lines` (0 for clean_text, which has none)
    reply,         \* what the endpoint call did (NoCall if not contacted)
    out,           \* the str returned (None when the call raised)
    failed,        \* TRUE when the function raised to its caller
    err,           \* the message of the exception raised
    \* save_structured_reviews_to_json and the file system it writes to
    model,         \* self.model
    dirs,          \* the directories that exist
    files,         \* what each destination holds
    saves,         \* the number of calls made so far
    save_call,     \* the arguments of the last call and what the file system did
    save_result,   \* "ok": the last call returned, "raised": it raised, "idle": no call yet
    save_prev      \* what the destination of the last call held before it

evars == <<op, summary, outcome, path, info, ret, raised>>
bvars == <<reviews, summarize, pc, idx, processed_reviews, replies, calls>>
tvars == <<fn, arg, limit, reply, out, failed, err>>
svars == <<model, dirs, files, saves, save_call, save_result, save_prev>>
vars == <<evars, bvars, tvars, svars>>

-----------------------------------------------------------------------------
(* Characters and str *)

\* the printable ASCII characters 32..95 and 97..126, in code-point order
AsciiLow == " !\"#$%&'()*+,-./0123456789:;<=>?@ABCDEFGHIJKLMNOPQRSTUVWXYZ[\\]^_"
AsciiHigh == "abcdefghijklmnopqrstuvwxyz{|}~"

\* ord(c) for those characters and for \t \n \r
OrdTable ==
    [c \in {SubSeq(AsciiLow, i, i) : i \in 1..Len(AsciiLow)} |->
        31 + CHOOSE i \in 1..Len(AsciiLow) : SubSeq(AsciiLow, i, i) = c]
    @@ [c \in {SubSeq(AsciiHigh, i, i) : i \in 1..Len(AsciiHigh)} |->
        96 + CHOOSE i \in 1..Len(AsciiHigh) : SubSeq(AsciiHigh, i, i) = c]
    @@ ("\t" :> 9) @@ ("\n" :> 10) @@ ("\r" :> 13)

Ord(c) == OrdTable[c]

Chars(lit) == [i \in 1..Len(lit) |-> Ord(SubSeq(lit, i, i))]

\* the code points the parser and the extractor look for
DoubleQuote == Ord("\"")
SingleQuote == Ord("'")
LeftBrace == Ord("{")
RightBrace == Ord("}")
LeftBracket == Ord("[")
RightBracket == Ord("]")
Comma == Ord(",")
Colon == Ord(":")
Zero == Ord("0")
LetterT == Ord("t")
LetterF == Ord("f")
LetterN == Ord("n")

\* the character at index i (1-based), -1 past either end
Ch(s, i) == IF 1 <= i /\ i <= Len(s) THEN s[i] ELSE -1

\* str.isspace for one code point (also the class \s of re, with re.UNICODE)
IsSpace(c) ==
    \/ c \in 9..13 \/ c \in 28..32 \/ c = 133 \/ c = 160 \/ c = 5760
    \/ c \in 8192..8202 \/ c \in 8232..8233 \/ c = 8239 \/ c = 8287 \/ c = 12288

IsBlank(s) == \A i \in 1..Len(s) : IsSpace(s[i])

\* s.strip()
Strip(s) ==
    IF IsBlank(s) THEN <<>>
    ELSE LET a == CHOOSE i \in 1..Len(s) :
                     ~IsSpace(s[i]) /\ \A j \in 1..(i - 1) : IsSpace(s[j])
             b == CHOOSE i \in 1..Len(s) :
                     ~IsSpace(s[i]) /\ \A j \in (i + 1)..Len(s) : IsSpace(s[j])
         IN  SubSeq(s, a, b)

\* s.find(c), s.rfind(c) for one character c: a 0-based index, -1 if none
Find(s, c) ==
    IF \E i \in 1..Len(s) : s[i] = c
    THEN (CHOOSE i \in 1..Len(s) : s[i] = c /\ \A j \in 1..(i - 1) : s[j] # c) - 1
    ELSE -1

RFind(s, c) ==
    IF \E i \in 1..Len(s) : s[i] = c
    THEN (CHOOSE i \in 1..Len(s) : s[i] = c /\ \A j \in (i + 1)..Len(s) : s[j] # c) - 1
    ELSE -1

\* s[a:b] for 0 <= a <= b
Slice(s, a, b) == SubSeq(s, a + 1, IF b <= Len(s) THEN b ELSE Len(s))

\* needle in hay, for two str
StrContains(hay, needle) ==
    \E i \in 1..(Len(hay) + 1) :
        /\ i + Len(needle) - 1 <= Len(hay)
        /\ SubSeq(hay, i, i + Len(needle) - 1) = needle

\* sep.join(xs)
RECURSIVE JoinStr(_, _)
JoinStr(xs, sep) ==
    IF xs = <<>> THEN <<>>
    ELSE IF Len(xs) = 1 THEN xs[1]
    ELSE xs[1] \o sep \o JoinStr(Tail(xs), sep)

\* str(n) for an int n >= 0
RECURSIVE IntToStr(_)
IntToStr(n) ==
    IF n < 10 THEN <<48 + n>> ELSE Append(IntToStr(n \div 10), 48 + (n % 10))

-----------------------------------------------------------------------------
(* Python values *)

PyNone == [t |-> "none", s |-> <<>>, n |-> 0, keys |-> <<>>, vals |-> <<>>]
PyStr(x) == [t |-> "str", s |-> x, n |-> 0, keys |-> <<>>, vals |-> <<>>]
PyInt(i) == [t |-> "int", s |-> <<>>, n |-> i, keys |-> <<>>, vals |-> <<>>]
PyBool(b) == [t |-> "bool", s |-> <<>>, n |-> IF b THEN 1 ELSE 0, keys |-> <<>>, vals |-> <<>>]
PyList(xs) == [t |-> "list", s |-> <<>>, n |-> 0, keys |-> <<>>, vals |-> xs]
PyDict(ks, xs) == [t |-> "dict", s |-> <<>>, n |-> 0, keys |-> ks, vals |-> xs]

EmptyDict == PyDict(<<>>, <<>>)

\* bool(v)
Truthy(v) ==
    CASE v.t = "none" -> FALSE
      [] v.t = "str"  -> v.s # <<>>
      [] v.t = "int"  -> v.n # 0
      [] v.t = "bool" -> v.n = 1
      [] v.t = "list" -> v.vals # <<>>
      [] v.t = "dict" -> v.keys # <<>>

HasKey(d, k) == \E i \in 1..Len(d.keys) : d.keys[i] = k

\* d[k] for a dict d that has k
DictGet(d, k) == d.vals[CHOOSE i \in 1..Len(d.keys) : d.keys[i] = k]

\* d[k] = v on a dict: a new key is appended, an existing key keeps its place
DictSet(d, k, v) ==
    IF HasKey(d, k)
    THEN PyDict(d.keys, [i \in 1..Len(d.keys) |-> IF d.keys[i] = k THEN v ELSE d.vals[i]])
    ELSE PyDict(Append(d.keys, k), Append(d.vals, v))

\* the outcome of `k in v` for a str k: "yes", "no", or "TypeError" (v is no container)
PyIn(k, v) ==
    CASE v.t = "dict" -> IF HasKey(v, k) THEN "yes" ELSE "no"
      [] v.t = "list" -> IF \E i \in 1..Len(v.vals) : v.vals[i] = PyStr(k) THEN "yes" ELSE "no"
      [] v.t = "str"  -> IF StrContains(v.s, k) THEN "yes" ELSE "no"
      [] OTHER        -> "TypeError"

\* repr(v); a str is quoted with ' unless it holds a ' and no "
RECURSIVE PyRepr(_)
PyRepr(v) ==
    CASE v.t = "none" -> Chars("None")
      [] v.t = "str"  ->
            IF (\E i \in 1..Len(v.s) : v.s[i] = SingleQuote) /\ ~(\E i \in 1..Len(v.s) : v.s[i] = DoubleQuote)
            THEN Chars("\"") \o v.s \o Chars("\"")
            ELSE Chars("'") \o v.s \o Chars("'")
      [] v.t = "int"  -> IntToStr(v.n)
      [] v.t = "bool" -> IF v.n = 1 THEN Chars("True") ELSE Chars("False")
      [] v.t = "list" ->
            Chars("[") \o JoinStr([i \in 1..Len(v.vals) |-> PyRepr(v.vals[i])], Chars(", ")) \o Chars("]")
      [] v.t = "dict" ->
            Chars("{") \o JoinStr([i \in 1..Len(v.keys) |->
                PyRepr(PyStr(v.keys[i])) \o Chars(": ") \o PyRepr(v.vals[i])], Chars(", ")) \o Chars("}")

\* str(v)
PyStrOf(v) == IF v.t = "str" THEN v.s ELSE PyRepr(v)

-----------------------------------------------------------------------------
(* json.loads, on the JSON subset the responses of the model are written   *)
(* in: objects, arrays, strings without escapes, unsigned integers, true,  *)
(* false, null and whitespace.  A parse is [ok, val, end]: end is the      *)
(* index of the first character after the value.                           *)

IsJsonWhitespace(c) == c \in {9, 10, 13, 32}
IsDigit(c) == c \in 48..57

ParseFail == [ok |-> FALSE, val |-> PyNone, end |-> 0]
ParseOk(v, e) == [ok |-> TRUE, val |-> v, end |-> e]

SkipWs(s, i) ==
    CHOOSE j \in i..(Len(s) + 1) :
        /\ ~IsJsonWhitespace(Ch(s, j))
        /\ \A k \in i..(j - 1) : IsJsonWhitespace(Ch(s, k))

\* the character a two-character escape stands for, 0 if there is no such escape
Unescaped(c) ==
    CASE c = 34 -> 34 [] c = 92 -> 92 [] c = 47 -> 47 [] c = 98 -> 8 [] c = 102 -> 12
      [] c = 110 -> 10 [] c = 114 -> 13 [] c = 116 -> 9 [] OTHER -> 0

\* the value of a hexadecimal digit, -1 for any other character
HexDigit(c) ==
    IF c \in 48..57 THEN c - 48 ELSE IF c \in 65..70 THEN c - 55
    ELSE IF c \in 97..102 THEN c - 87 ELSE -1

\* the rest of a string literal from position j, `acc` being the characters so far:
\* a backslash escape stands for its character, a control character is an error
RECURSIVE ScanString(_, _, _)
ScanString(s, j, acc) ==
    IF j > Len(s) THEN ParseFail
    ELSE IF s[j] = DoubleQuote THEN ParseOk(PyStr(acc), j + 1)
    ELSE IF s[j] < 32 THEN ParseFail
    ELSE IF s[j] # 92 THEN ScanString(s, j + 1, Append(acc, s[j]))
    ELSE IF Unescaped(Ch(s, j + 1)) # 0
    THEN ScanString(s, j + 2, Append(acc, Unescaped(Ch(s, j + 1))))
    ELSE IF Ch(s, j + 1) = 117 /\ j + 5 <= Len(s) /\ \A k \in (j + 2)..(j + 5) : HexDigit(s[k]) >= 0
    THEN ScanString(s, j + 6, Append(acc, 4096 * HexDigit(s[j + 2]) + 256 * HexDigit(s[j + 3])
                                          + 16 * HexDigit(s[j + 4]) + HexDigit(s[j + 5])))
    ELSE ParseFail

\* a string literal whose opening quote is at i
ParseString(s, i) == ScanString(s, i + 1, <<>>)

RECURSIVE DigitsValue(_, _, _)
DigitsValue(s, i, j) ==
    IF j < i THEN 0 ELSE 10 * DigitsValue(s, i, j - 1) + (s[j] - 48)

\* an integer literal whose first digit is at i; a leading 0 ends the literal
ParseNumber(s, i) ==
    IF s[i] = Zero THEN ParseOk(PyInt(0), i + 1)
    ELSE LET j == CHOOSE j \in i..Len(s) :
                      /\ \A k \in i..j : IsDigit(s[k])
                      /\ ~IsDigit(Ch(s, j + 1))
         IN  ParseOk(PyInt(DigitsValue(s, i, j)), j + 1)

RECURSIVE ParseValue(_, _)
RECURSIVE ParseMembers(_, _, _)
RECURSIVE ParseElements(_, _, _)
RECURSIVE AfterMember(_, _, _)
RECURSIVE MemberValue(_, _, _, _)
RECURSIVE MemberColon(_, _, _, _)
RECURSIVE MemberKey(_, _, _)
RECURSIVE AfterElement(_, _, _)
RECURSIVE ElementValue(_, _, _)

\* the value whose first character is at i
ParseValue(s, i) ==
    LET c == Ch(s, i)
    IN  CASE c = DoubleQuote -> ParseString(s, i)
          [] c = LeftBrace ->
                LET j == SkipWs(s, i + 1)
                IN  IF Ch(s, j) = RightBrace THEN ParseOk(EmptyDict, j + 1)
                    ELSE ParseMembers(s, j, EmptyDict)
          [] c = LeftBracket ->
                LET j == SkipWs(s, i + 1)
                IN  IF Ch(s, j) = RightBracket THEN ParseOk(PyList(<<>>), j + 1)
                    ELSE ParseElements(s, j, <<>>)
          [] IsDigit(c) -> ParseNumber(s, i)
          [] c = LetterT /\ SubSeq(s, i, i + 3) = Chars("true") -> ParseOk(PyBool(TRUE), i + 4)
          [] c = LetterF /\ SubSeq(s, i, i + 4) = Chars("false") -> ParseOk(PyBool(FALSE), i + 5)
          [] c = LetterN /\ SubSeq(s, i, i + 3) = Chars("null") -> ParseOk(PyNone, i + 4)
          [] OTHER -> ParseFail

\* after a member: "}" ends the object, "," leads to the next key; d holds the
\* members read so far and e is the index of the first character after them
AfterMember(s, d, e) ==
    CASE Ch(s, e) = RightBrace -> ParseOk(d, e + 1)
      [] Ch(s, e) = Comma -> ParseMembers(s, SkipWs(s, e + 1), d)
      [] OTHER -> ParseFail

\* the parse v of the value of key k: a later member replaces an earlier one of that name
MemberValue(s, d, k, v) ==
    IF ~v.ok THEN ParseFail
    ELSE AfterMember(s, DictSet(d, k.val.s, v.val), SkipWs(s, v.end))

\* the ":" expected at c after key k, then the value
MemberColon(s, d, k, c) ==
    IF Ch(s, c) # Colon THEN ParseFail
    ELSE MemberValue(s, d, k, ParseValue(s, SkipWs(s, c + 1)))

\* the parse k of the key of a member
MemberKey(s, d, k) ==
    IF ~k.ok THEN ParseFail ELSE MemberColon(s, d, k, SkipWs(s, k.end))

\* the members of an object from the key at i on; d holds the members read so far
ParseMembers(s, i, d) ==
    IF Ch(s, i) # DoubleQuote THEN ParseFail ELSE MemberKey(s, d, ParseString(s, i))

\* after an element: "]" ends the array, "," leads to the next element
AfterElement(s, xs, e) ==
    CASE Ch(s, e) = RightBracket -> ParseOk(PyList(xs), e + 1)
      [] Ch(s, e) = Comma -> ParseElements(s, SkipWs(s, e + 1), xs)
      [] OTHER -> ParseFail

\* the parse v of an element
ElementValue(s, xs, v) ==
    IF ~v.ok THEN ParseFail ELSE AfterElement(s, Append(xs, v.val), SkipWs(s, v.end))

\* the elements of an array from the value at i on; xs holds the elements read so far
ParseElements(s, i, xs) == ElementValue(s, xs, ParseValue(s, i))

\* the parse v of the first value of s is the result if only whitespace follows it
WholeDocument(s, v) ==
    IF v.ok /\ SkipWs(s, v.end) = Len(s) + 1 THEN v ELSE ParseFail

\* json.loads(s): ok is FALSE where json.loads raises JSONDecodeError
JsonLoads(s) == WholeDocument(s, ParseValue(s, SkipWs(s, 1)))


\* json.dump(obj, f, indent=2, ensure_ascii=False): the text written

\* a character inside a string literal: quote, backslash and control characters are
\* escaped, every other character is written as it is
\* a faulty variant of EscapeChar: every character is written as it is
EscapeCharRaw(c) == <<c>>

EscapeChar(c) ==
    CASE c = 34 -> <<92, 34>> [] c = 92 -> <<92, 92>> [] c = 10 -> <<92, 110>>
      [] c = 13 -> <<92, 114>> [] c = 9 -> <<92, 116>> [] c = 8 -> <<92, 98>>
      [] c = 12 -> <<92, 102>>
      [] c < 32 /\ c \notin {8, 9, 10, 12, 13} -> <<92, 117, 48, 48, 48 + (c \div 16),
                                                IF c % 16 < 10 THEN 48 + (c % 16) ELSE 87 + (c % 16)>>
      [] OTHER -> <<c>>

RECURSIVE EscapeAll(_)
EscapeAll(s) == IF s = <<>> THEN <<>> ELSE EscapeChar(Head(s)) \o EscapeAll(Tail(s))

JsonString(s) == <<34>> \o EscapeAll(s) \o <<34>>

\* a newline and the indentation of a nesting level
NewlineIndent(level) == <<10>> \o [i \in 1..(2 * level) |-> 32]

RECURSIVE JsonDumps(_, _)
JsonDumps(v, level) ==
    CASE v.t = "none" -> Chars("null")
      [] v.t = "bool" -> IF v.n = 1 THEN Chars("true") ELSE Chars("false")
      [] v.t = "int" -> IntToStr(v.n)
      [] v.t = "str" -> JsonString(v.s)
      [] v.t = "list" ->
            IF v.vals = <<>> THEN Chars("[]")
            ELSE Chars("[") \o NewlineIndent(level + 1)
                 \o JoinStr([i \in 1..Len(v.vals) |-> JsonDumps(v.vals[i], level + 1)],
                            Chars(",") \o NewlineIndent(level + 1))
                 \o NewlineIndent(level) \o Chars("]")
      [] v.t = "dict" ->
            IF v.keys = <<>> THEN Chars("{}")
            ELSE Chars("{") \o NewlineIndent(level + 1)
                 \o JoinStr([i \in 1..Len(v.keys) |->
                                JsonString(v.keys[i]) \o Chars(": ") \o JsonDumps(v.vals[i], level + 1)],
                            Chars(",") \o NewlineIndent(level + 1))
                 \o NewlineIndent(level) \o Chars("}")

-----------------------------------------------------------------------------
(* The structured extractor *)

ScalarFields ==
    <<Chars("product_or_service_name"), Chars("key_point_description"),
      Chars("key_pain_point"), Chars("sentiment")>>
EnvironmentKeys ==
    <<Chars("os"), Chars("software_version"), Chars("product_model"), Chars("other")>>
TestSteps == Chars("test_steps")
TestEnvironment == Chars("test_environment")
ExtractionError == Chars("extraction_error")
NotSpecified == PyStr(Chars("Not specified"))

\* _get_empty_structured_info()
GetEmptyStructuredInfo ==
    PyDict(ScalarFields \o <<TestSteps, TestEnvironment>>,
           <<NotSpecified, PyStr(<<>>), PyStr(<<>>), PyStr(Chars("Unknown")),
             PyList(<<>>),
             PyDict(EnvironmentKeys, <<NotSpecified, NotSpecified, NotSpecified, NotSpecified>>)>>)

\* A run of _validate_structured_info is [raised, value]: value is the dict
\* `validated` so far, raised is TRUE once a statement has raised TypeError
\* (`key in info` on a value that is no container, info[key] on a list or a str).

\* a faulty variant of ValidateScalar: `if info.get(key)`, which skips a falsy value
ValidateScalarTruthy(st, inf, key) ==
    IF st.raised THEN st
    ELSE CASE PyIn(key, inf) = "no" -> st
           [] PyIn(key, inf) = "yes" /\ inf.t = "dict" ->
                IF Truthy(DictGet(inf, key))
                THEN [st EXCEPT !.value = DictSet(@, key, PyStr(PyStrOf(DictGet(inf, key))))]
                ELSE st
           [] OTHER -> [st EXCEPT !.raised = TRUE]

\* a variant of ValidateScalar that keeps the default unless the value is one of the
\* sentiments the prompt names
ValidateScalarEnum(st, inf, key) ==
    IF st.raised THEN st
    ELSE CASE PyIn(key, inf) = "no" -> st
           [] PyIn(key, inf) = "yes" /\ inf.t = "dict" ->
                IF key = Chars("sentiment")
                   /\ PyStrOf(DictGet(inf, key)) \notin
                         {Chars("Positive"), Chars("Negative"), Chars("Neutral"), Chars("Mixed")}
                THEN st
                ELSE [st EXCEPT !.value = DictSet(@, key, PyStr(PyStrOf(DictGet(inf, key))))]
           [] OTHER -> [st EXCEPT !.raised = TRUE]

\* if key in info: validated[key] = str(info[key])
ValidateScalar(st, inf, key) ==
    IF st.raised THEN st
    ELSE CASE PyIn(key, inf) = "no" -> st
           [] PyIn(key, inf) = "yes" /\ inf.t = "dict" ->
                [st EXCEPT !.value = DictSet(@, key, PyStr(PyStrOf(DictGet(inf, key))))]
           [] OTHER -> [st EXCEPT !.raised = TRUE]

RECURSIVE ValidateScalars(_, _, _)
ValidateScalars(st, inf, i) ==
    IF i > Len(ScalarFields) THEN st
    ELSE ValidateScalars(ValidateScalar(st, inf, ScalarFields[i]), inf, i + 1)

\* a faulty variant of ValidateTestSteps: `[str(step) for step in steps if step]`,
\* which leaves out the falsy elements of the list
ValidateTestStepsSkipsFalsy(st, inf) ==
    IF st.raised THEN st
    ELSE CASE PyIn(TestSteps, inf) = "no" -> st
           [] PyIn(TestSteps, inf) = "yes" /\ inf.t = "dict" ->
                LET steps == DictGet(inf, TestSteps)
                    kept == SelectSeq(steps.vals, LAMBDA step : Truthy(step))
                IN  IF steps.t = "list"
                    THEN [st EXCEPT !.value = DictSet(@, TestSteps,
                              PyList([i \in 1..Len(kept) |-> PyStr(PyStrOf(kept[i]))]))]
                    ELSE [st EXCEPT !.value = DictSet(@, TestSteps, PyList(<<PyStr(PyStrOf(steps))>>))]
           [] OTHER -> [st EXCEPT !.raised = TRUE]

\* if 'test_steps' in info: a list is stringified element by element, anything else is wrapped
ValidateTestSteps(st, inf) ==
    IF st.raised THEN st
    ELSE CASE PyIn(TestSteps, inf) = "no" -> st
           [] PyIn(TestSteps, inf) = "yes" /\ inf.t = "dict" ->
                LET steps == DictGet(inf, TestSteps)
                IN  IF steps.t = "list"
                    THEN [st EXCEPT !.value = DictSet(@, TestSteps,
                              PyList([i \in 1..Len(steps.vals) |-> PyStr(PyStrOf(steps.vals[i]))]))]
                    ELSE [st EXCEPT !.value = DictSet(@, TestSteps, PyList(<<PyStr(PyStrOf(steps))>>))]
           [] OTHER -> [st EXCEPT !.raised = TRUE]

\* a faulty variant of CopyEnvironment: `if info['test_environment'].get(key)`, which
\* leaves the sentinel where the input holds a falsy value
RECURSIVE CopyEnvironmentTruthy(_, _, _)
CopyEnvironmentTruthy(environment, src, i) ==
    IF i > Len(EnvironmentKeys) THEN environment
    ELSE LET key == EnvironmentKeys[i]
         IN  CopyEnvironmentTruthy(
                 IF HasKey(src, key) /\ Truthy(DictGet(src, key))
                 THEN DictSet(environment, key, PyStr(PyStrOf(DictGet(src, key))))
                 ELSE environment,
                 src, i + 1)

\* for key in ['os', ...]: if key in info['test_environment']: copy it, stringified
RECURSIVE CopyEnvironment(_, _, _)
CopyEnvironment(environment, src, i) ==
    IF i > Len(EnvironmentKeys) THEN environment
    ELSE LET key == EnvironmentKeys[i]
         IN  CopyEnvironment(
                 IF HasKey(src, key)
                 THEN DictSet(environment, key, PyStr(PyStrOf(DictGet(src, key))))
                 ELSE environment,
                 src, i + 1)

\* a faulty variant of ValidateTestEnvironment: `for key in info['test_environment']`,
\* which copies every key of the input environment
ValidateTestEnvironmentCopiesAll(st, inf) ==
    IF st.raised THEN st
    ELSE CASE PyIn(TestEnvironment, inf) = "no" -> st
           [] PyIn(TestEnvironment, inf) = "yes" /\ inf.t = "dict" ->
                LET src == DictGet(inf, TestEnvironment)
                    keys == EnvironmentKeys \o
                            SelectSeq(src.keys, LAMBDA k : \A i \in 1..Len(EnvironmentKeys) :
                                                               EnvironmentKeys[i] # k)
                IN  IF src.t = "dict"
                    THEN [st EXCEPT !.value = DictSet(@, TestEnvironment,
                              PyDict(keys, [i \in 1..Len(keys) |->
                                  IF HasKey(src, keys[i])
                                  THEN PyStr(PyStrOf(DictGet(src, keys[i])))
                                  ELSE NotSpecified]))]
                    ELSE st
           [] OTHER -> [st EXCEPT !.raised = TRUE]

\* if 'test_environment' in info and isinstance(info['test_environment'], dict): ...
ValidateTestEnvironment(st, inf) ==
    IF st.raised THEN st
    ELSE CASE PyIn(TestEnvironment, inf) = "no" -> st
           [] PyIn(TestEnvironment, inf) = "yes" /\ inf.t = "dict" ->
                LET src == DictGet(inf, TestEnvironment)
                IN  IF src.t = "dict"
                    THEN [st EXCEPT !.value = DictSet(@, TestEnvironment,
                              CopyEnvironment(DictGet(st.value, TestEnvironment), src, 1))]
                    ELSE st
           [] OTHER -> [st EXCEPT !.raised = TRUE]

\* _validate_structured_info(info)
ValidateStructuredInfo(inf) ==
    ValidateTestEnvironment(
        ValidateTestSteps(
            ValidateScalars([raised |-> FALSE, value |-> GetEmptyStructuredInfo], inf, 1),
            inf),
        inf)

\* result = self._get_empty_structured_info(); result['extraction_error'] = msg
WithExtractionError(msg) == DictSet(GetEmptyStructuredInfo, ExtractionError, PyStr(msg))

\* What one endpoint call does: kind "ok" is a 2xx reply whose JSON body carries the
\* generated text `response`; "request_exception" is a requests RequestException
\* (connection failure, timeout, raise_for_status on a non-success status);
\* "exception" is any other error raised inside the try block (a reply body that
\* is no mapping, generated text that is no str); "none" is no call at all.
NoCall == [kind |-> "none", response |-> <<>>, error |-> <<>>]
OkReply(text) == [kind |-> "ok", response |-> text, error |-> <<>>]
RequestException(msg) == [kind |-> "request_exception", response |-> <<>>, error |-> msg]
OtherException(msg) == [kind |-> "exception", response |-> <<>>, error |-> msg]

\* a variant of ParseResponse in two stages: the whole response is parsed also when
\* the parse of the substring fails
ParseResponseTwoStage(llm_response) ==
    LET json_start == Find(llm_response, LeftBrace)
        json_end == RFind(llm_response, RightBrace) + 1
    IN  IF json_start >= 0 /\ json_end > json_start
           /\ JsonLoads(Slice(llm_response, json_start, json_end)).ok
        THEN JsonLoads(Slice(llm_response, json_start, json_end))
        ELSE JsonLoads(llm_response)

\* the parse of the JSON part of the response: of the substring from the first "{"
\* to the last "}" when there is one, else of the whole response
ParseResponse(llm_response) ==
    LET json_start == Find(llm_response, LeftBrace)
        json_end == RFind(llm_response, RightBrace) + 1
    IN  JsonLoads(IF json_start >= 0 /\ json_end > json_start
                  THEN Slice(llm_response, json_start, json_end)
                  ELSE llm_response)

\* A run of extract_structured_info is [path, parsed, value, raised]: path names the
\* return statement taken, parsed is structured_info, value is what is returned and
\* raised is TRUE when an error leaves the function.

\* a faulty variant of ReturnValidated: the call of _validate_structured_info stands
\* after the try statement, so that its TypeError reaches the caller
ReturnValidatedUncaught(structured_info, validation) ==
    IF validation.raised
    THEN [path |-> "validate_error", parsed |-> structured_info, raised |-> TRUE,
          value |-> PyNone]
    ELSE [path |-> "validated", parsed |-> structured_info, raised |-> FALSE,
          value |-> validation.value]

\* validated_info = self._validate_structured_info(structured_info) and its return;
\* a TypeError raised there is caught by `except Exception`
ReturnValidated(structured_info, validation) ==
    IF validation.raised
    THEN [path |-> "validate_error", parsed |-> structured_info, raised |-> FALSE,
          value |-> WithExtractionError(Chars("Unexpected error: TypeError"))]
    ELSE [path |-> "validated", parsed |-> structured_info, raised |-> FALSE,
          value |-> validation.value]

\* the inner try block: the parse, and `except json.JSONDecodeError` when it fails
ReturnParsed(parse) ==
    IF ~parse.ok
    THEN [path |-> "parse_error", parsed |-> PyNone, raised |-> FALSE,
          value |-> WithExtractionError(Chars("JSON parsing error: Expecting value"))]
    ELSE ReturnValidated(parse.val, ValidateStructuredInfo(parse.val))

\* a faulty variant of IsBlankSummary: `if not summary:`, without the strip
IsBlankSummaryEmptyOnly(summ) == ~Truthy(summ)

\* `if not summary or not summary.strip()`
IsBlankSummary(summ) == ~Truthy(summ) \/ Len(Strip(summ.s)) = 0

\* extract_structured_info(summary) when the endpoint call does `o`
ExtractStructuredInfo(summ, o) ==
    IF IsBlankSummary(summ)
    THEN [path |-> "empty", parsed |-> PyNone, value |-> GetEmptyStructuredInfo, raised |-> FALSE]
    ELSE CASE o.kind = "request_exception" ->
                [path |-> "api_error", parsed |-> PyNone, raised |-> FALSE,
                 value |-> WithExtractionError(Chars("API error: ") \o o.error)]
           [] o.kind = "exception" ->
                [path |-> "unexpected_error", parsed |-> PyNone, raised |-> FALSE,
                 value |-> WithExtractionError(Chars("Unexpected error: ") \o o.error)]
           [] o.kind = "ok" -> ReturnParsed(ParseResponse(Strip(o.response)))

-----------------------------------------------------------------------------
(* What the language model may answer to the extraction prompt *)

MaxSteps == 3      \* the longest test_steps array among the responses

Quote(s) == Chars("\"") \o s \o Chars("\"")
Member(k, lit) == Quote(k) \o Chars(": ") \o lit
ObjectText(members) == Chars("{") \o JoinStr(members, Chars(", ")) \o Chars("}")
ArrayText(elements) == Chars("[") \o JoinStr(elements, Chars(", ")) \o Chars("]")

\* the keys of the schema the prompt asks for, and one key it does not ask for
ResponseKeys == ScalarFields \o <<TestSteps, TestEnvironment, Chars("confidence")>>

\* one JSON literal for each of them
SampleLiterals ==
    <<Chars("\"Phone X\""), Chars("\"Battery drains fast\""), Chars("null"), Chars("\"Negative\""),
      Chars("[\"Open app\", 2]"), Chars("{\"os\": \"Android 14\", \"ram\": 8}"), Chars("7")>>

\* the object that has the keys numbered in S, each with its sample literal
SubsetObject(S) ==
    LET picked == SelectSeq([i \in 1..Len(ResponseKeys) |-> i], LAMBDA i : i \in S)
    IN  ObjectText([j \in 1..Len(picked) |-> Member(ResponseKeys[picked[j]], SampleLiterals[picked[j]])])

\* the full object with the literal of key number i replaced
FullObjectWith(i, lit) ==
    ObjectText([j \in 1..Len(ResponseKeys) |->
                   Member(ResponseKeys[j], IF j = i THEN lit ELSE SampleLiterals[j])])

ScalarLiterals ==
    {Chars("\"Positive\""), Chars("\"Negative\""), Chars("\"Neutral\""), Chars("\"Mixed\""),
     Chars("\"Unknown\""), Chars("\"Great\""), Chars("\"\""), Chars("123"), Chars("0"),
     Chars("true"), Chars("false"), Chars("null"), Chars("[1, \"a\"]"), Chars("{\"a\": \"it's\"}")}

StepElements ==
    <<Chars("\"Open app\""), Chars("2"), Chars("true"), Chars("null"), Chars("[3, \"x\"]"),
      Chars("{\"tap\": \"Save\"}")>>

StepsLiterals ==
    {ArrayText([i \in 1..n |-> StepElements[((i + k - 1) % Len(StepElements)) + 1]]) :
        n \in 0..MaxSteps, k \in 0..(Len(StepElements) - 1)}
    \cup {Chars("\"Reboot\""), Chars("5"), Chars("null"), Chars("{\"1\": \"Open app\"}")}

EnvironmentLiterals ==
    {Chars("{}"),
     Chars("{\"os\": \"iOS 17\", \"software_version\": \"2.1\", \"product_model\": \"X\", \"other\": \"wifi\"}"),
     Chars("{\"os\": 14, \"other\": null, \"ram\": 8}"),
     Chars("{\"product_model\": [1], \"software_version\": true}"),
     Chars("{\"ram\": 8, \"cpu\": \"arm\"}"),
     Chars("\"Linux\""), Chars("[\"os\"]"), Chars("null"), Chars("3")}

\* prose around the object, the tolerance the two-stage extraction is there for
Wrappings ==
    {<<Chars("Here is the JSON:\n"), <<>>>>,
     <<<<>>, Chars("\nHope this helps!")>>,
     <<Chars("  \n"), Chars("\n  ")>>,
     <<Chars("Sure {as asked}: "), <<>>>>,
     <<<<>>, Chars(" (see {above})")>>,
     <<Chars("Result: "), Chars(" }")>>}

\* responses that are no single JSON object
OtherResponses ==
    {<<>>, Chars("   "), Chars("I could not find any product."), Chars("{"), Chars("}"), Chars("} {"),
     Chars("{\"sentiment\": \"Mixed\""), Chars("{\"sentiment\" \"Mixed\"}"), Chars("{\"sentiment\": Mixed}"),
     Chars("{\"sentiment\": \"Mixed\",}"), Chars("{\"a\": 1} and {\"b\": 2}"),
     Chars("[{\"sentiment\": \"Mixed\"}, {\"sentiment\": \"Positive\"}]"),
     Chars("[{\"sentiment\": \"Mixed\"}]"), Chars("\"a { b } c\""), Chars("\"see {sentiment}\""),
     Chars("[\"sentiment\"]"), Chars("[\"x\", 1]"), Chars("[]"), Chars("[1, 2"),
     Chars("\"sentiment\""), Chars("\"Positive\""), Chars("42"), Chars("null"), Chars("true"),
     Chars("{\"sentiment\": \"a\", \"sentiment\": \"b\"}"), Chars("{\"extraction_error\": \"none\"}"),
     Chars("{\"os\": \"Android\"}")}

Responses ==
    {SubsetObject(S) : S \in SUBSET (1..Len(ResponseKeys))}
    \cup {ObjectText(<<Member(ScalarFields[i], lit)>>) : i \in 1..Len(ScalarFields), lit \in ScalarLiterals}
    \cup {FullObjectWith(i, lit) : i \in 1..Len(ScalarFields), lit \in ScalarLiterals}
    \cup {ObjectText(<<Member(TestSteps, lit)>>) : lit \in StepsLiterals}
    \cup {FullObjectWith(5, lit) : lit \in StepsLiterals}
    \cup {ObjectText(<<Member(TestEnvironment, lit)>>) : lit \in EnvironmentLiterals}
    \cup {FullObjectWith(6, lit) : lit \in EnvironmentLiterals}
    \cup {w[1] \o body \o w[2] : w \in Wrappings,
            body \in {SubsetObject({}), SubsetObject({4}), SubsetObject({1, 5, 6})}}
    \cup OtherResponses

ErrorMessages == {Chars("Read timed out."), Chars("500 Server Error")}

EndpointOutcomes ==
    {OkReply(r) : r \in Responses}
    \cup {RequestException(m) : m \in ErrorMessages}
    \cup {OtherException(m) : m \in ErrorMessages}

\* the summaries extract_structured_info is called with: the summary of a processed
\* record is a str, or None when its summarization failed
Summaries == {PyNone, PyStr(<<>>), PyStr(Chars("  \n")), PyStr(Chars("Battery drains fast."))}

\* the values _validate_structured_info is called with: whatever json.loads returned
ValidateInputs == {JsonLoads(r).val : r \in {x \in Responses : JsonLoads(x).ok}}

-----------------------------------------------------------------------------
(* The text normalizer *)

\* a faulty variant of ConcatenateReviewText: the result is not stripped
ConcatenateReviewTextUnstripped(title, body) ==
    LET t1 == IF Truthy(title) THEN title ELSE PyStr(<<>>)
        b1 == IF Truthy(body) THEN body ELSE PyStr(<<>>)
    IN  PyStrOf(t1) \o Chars(" ") \o PyStrOf(b1)

\* concatenate_review_text(title, body): title and body are Python values
ConcatenateReviewText(title, body) ==
    LET t1 == IF Truthy(title) THEN title ELSE PyStr(<<>>)
        b1 == IF Truthy(body) THEN body ELSE PyStr(<<>>)
    IN  Strip(PyStrOf(t1) \o Chars(" ") \o PyStrOf(b1))

\* a faulty variant of IsEmoji: the class without its last two ranges (2600-27BF)
IsEmojiWithoutSymbols(c) ==
    \/ c \in 128512..128591
    \/ c \in 127744..128511
    \/ c \in 128640..128767
    \/ c \in 127456..127487
    \/ c \in 129280..129535
    \/ c \in 129536..129647
    \/ c \in 129648..129791

\* the character class of emoji_pattern
IsEmoji(c) ==
    \/ c \in 128512..128591      \* 1F600-1F64F emoticons
    \/ c \in 127744..128511      \* 1F300-1F5FF symbols & pictographs
    \/ c \in 128640..128767      \* 1F680-1F6FF transport & map symbols
    \/ c \in 127456..127487      \* 1F1E0-1F1FF flags
    \/ c \in 129280..129535      \* 1F900-1F9FF supplemental symbols and pictographs
    \/ c \in 129536..129647      \* 1FA00-1FA6F chess symbols
    \/ c \in 129648..129791      \* 1FA70-1FAFF symbols and pictographs extended-A
    \/ c \in 9728..9983          \* 2600-26FF miscellaneous symbols
    \/ c \in 9984..10175         \* 2700-27BF dingbats

\* the class \w of re with re.UNICODE (alphanumeric or underscore), on the blocks
\* the texts of the model are written in: Basic Latin to Latin Extended-B,
\* Cyrillic, CJK Unified Ideographs, and the Dingbats block
IsWordChar(c) ==
    \/ c \in 48..57 \/ c \in 65..90 \/ c = 95 \/ c \in 97..122
    \/ c = 170 \/ c \in 178..179 \/ c = 181 \/ c \in 185..186 \/ c \in 188..190
    \/ c \in 192..214 \/ c \in 216..246 \/ c \in 248..591
    \/ c \in 1024..1153 \/ c \in 1162..1279
    \/ c \in 19968..40959
    \/ c \in 10102..10131

\* a faulty variant of KeptPunctuation: the class of the second substitution also
\* lists #
KeptPunctuationWithHash == {46, 44, 33, 63, 59, 58, 39, 34, 45, 35}

\* the punctuation the second substitution keeps: . , ! ? ; : ' " -
KeptPunctuation == {46, 44, 33, 63, 59, 58, 39, 34, 45}

\* re.sub(r'\s+', ' ', text): every maximal run of whitespace becomes one space
RECURSIVE CollapseWhitespace(_)
CollapseWhitespace(text) ==
    IF text = <<>> THEN <<>>
    ELSE IF IsSpace(text[1])
    THEN IF Len(text) > 1 /\ IsSpace(text[2])
         THEN CollapseWhitespace(Tail(text))
         ELSE <<32>> \o CollapseWhitespace(Tail(text))
    ELSE <<text[1]>> \o CollapseWhitespace(Tail(text))

\* a faulty variant of CleanText: text.strip() is the first step, not the last
CleanTextStripsFirst(text) ==
    IF ~Truthy(text) THEN <<>>
    ELSE LET noEmoji == SelectSeq(Strip(text.s), LAMBDA c : ~IsEmoji(c))
             noSpecial == SelectSeq(noEmoji,
                              LAMBDA c : IsWordChar(c) \/ IsSpace(c) \/ c \in KeptPunctuation)
         IN  CollapseWhitespace(noSpecial)

\* a faulty variant of CleanText: whitespace is collapsed before the special
\* characters are removed
CleanTextCollapsesFirst(text) ==
    IF ~Truthy(text) THEN <<>>
    ELSE LET noEmoji == SelectSeq(text.s, LAMBDA c : ~IsEmoji(c))
             noSpecial == SelectSeq(CollapseWhitespace(noEmoji),
                              LAMBDA c : IsWordChar(c) \/ IsSpace(c) \/ c \in KeptPunctuation)
         IN  Strip(noSpecial)

\* clean_text(text): text is a Python value (a str or None)
CleanText(text) ==
    IF ~Truthy(text) THEN <<>>
    ELSE LET noEmoji == SelectSeq(text.s, LAMBDA c : ~IsEmoji(c))
             noSpecial == SelectSeq(noEmoji,
                              LAMBDA c : IsWordChar(c) \/ IsSpace(c) \/ c \in KeptPunctuation)
         IN  Strip(CollapseWhitespace(noSpecial))

-----------------------------------------------------------------------------
(* The summarizer *)

\* s.split('\n')
RECURSIVE SplitLines(_)
SplitLines(s) ==
    LET i == Find(s, 10)
    IN  IF i < 0 THEN <<s>>
        ELSE <<Slice(s, 0, i)>> \o SplitLines(SubSeq(s, i + 2, Len(s)))

\* a faulty variant of SummarizeWithOllama: the except clauses `return ""` instead
\* of raising
SummarizeWithOllamaSwallows(text, max_lines, o) ==
    IF text = <<>> \/ Len(Strip(text)) = 0
    THEN [raised |-> FALSE, value |-> <<>>, error |-> <<>>]
    ELSE IF o.kind = "ok"
    THEN LET lines == SplitLines(Strip(o.response))
             first == SubSeq(lines, 1, IF max_lines <= Len(lines) THEN max_lines ELSE Len(lines))
             kept == SelectSeq(first, LAMBDA line : Strip(line) # <<>>)
         IN  [raised |-> FALSE, error |-> <<>>,
              value |-> JoinStr([i \in 1..Len(kept) |-> Strip(kept[i])], <<10>>)]
    ELSE [raised |-> FALSE, value |-> <<>>, error |-> <<>>]

\* summarize_with_ollama(text, max_lines) when the endpoint call does `o`:
\* [raised, value, error]; the function re-raises whatever the call raised
SummarizeWithOllama(text, max_lines, o) ==
    IF text = <<>> \/ Len(Strip(text)) = 0
    THEN [raised |-> FALSE, value |-> <<>>, error |-> <<>>]
    ELSE IF o.kind = "ok"
    THEN LET lines == SplitLines(Strip(o.response))
             first == SubSeq(lines, 1, IF max_lines <= Len(lines) THEN max_lines ELSE Len(lines))
             kept == SelectSeq(first, LAMBDA line : Strip(line) # <<>>)
         IN  [raised |-> FALSE, error |-> <<>>,
              value |-> JoinStr([i \in 1..Len(kept) |-> Strip(kept[i])], <<10>>)]
    ELSE [raised |-> TRUE, value |-> <<>>, error |-> o.error]

-----------------------------------------------------------------------------
(* The batch orchestrator *)

Title == Chars("title")
Selftext == Chars("selftext")
ConcatenatedText == Chars("concatenated_text")
CleanedText == Chars("cleaned_text")
Summary == Chars("summary")
SummaryError == Chars("summary_error")
ProcessingError == Chars("processing_error")

\* review_data.get(key, '')
GetOrEmpty(review_data, key) ==
    IF HasKey(review_data, key) THEN DictGet(review_data, key) ELSE PyStr(<<>>)

\* the cleaned text process_review computes for a record
CleanedOf(review_data) ==
    CleanText(PyStr(ConcatenateReviewText(GetOrEmpty(review_data, Title),
                                          GetOrEmpty(review_data, Selftext))))

\* a faulty variant of NeedsSummary: `if summarize:`, whatever the cleaned text is
NeedsSummaryAlways(review_data, summ) == summ

\* `if summarize and cleaned`: the record is sent to the summarizer
NeedsSummary(review_data, summ) == summ /\ CleanedOf(review_data) # <<>>

\* a faulty variant of NormalizedRecord: the raw record is merged in after the computed
\* fields, so that a raw field of the same name wins
NormalizedRecordRawWins(review_data) ==
    LET concatenated == ConcatenateReviewText(GetOrEmpty(review_data, Title),
                                              GetOrEmpty(review_data, Selftext))
        first == IF HasKey(review_data, ConcatenatedText) THEN review_data
                 ELSE DictSet(review_data, ConcatenatedText, PyStr(concatenated))
    IN  IF HasKey(review_data, CleanedText) THEN first
        ELSE DictSet(first, CleanedText, PyStr(CleanText(PyStr(concatenated))))

\* result = {**review_data, 'concatenated_text': concatenated, 'cleaned_text': cleaned}
NormalizedRecord(review_data) ==
    LET concatenated == ConcatenateReviewText(GetOrEmpty(review_data, Title),
                                              GetOrEmpty(review_data, Selftext))
    IN  DictSet(DictSet(review_data, ConcatenatedText, PyStr(concatenated)),
                CleanedText, PyStr(CleanText(PyStr(concatenated))))

\* a faulty variant of Summarized: the except block records no summary_error
SummarizedSilent(result, s) ==
    IF ~s.raised
    THEN DictSet(result, Summary, PyStr(s.value))
    ELSE DictSet(result, Summary, PyNone)

\* a faulty variant of Summarized: the except block stores an empty summary, not None
SummarizedEmptySummary(result, s) ==
    IF ~s.raised
    THEN DictSet(result, Summary, PyStr(s.value))
    ELSE DictSet(DictSet(result, Summary, PyStr(<<>>)), SummaryError, PyStr(s.error))

\* the try block around the summarizer call s: result['summary'] = summary, or, in
\* the except block, result['summary'] = None and result['summary_error'] = str(e)
Summarized(result, s) ==
    IF ~s.raised
    THEN DictSet(result, Summary, PyStr(s.value))
    ELSE DictSet(DictSet(result, Summary, PyNone), SummaryError, PyStr(s.error))

\* a faulty variant of ProcessReview: the processor keeps the last reply it got and
\* uses it for a later record whose own call fails
ProcessReviewReusesLastReply(review_data, summ, o) ==
    [raised |-> FALSE, error |-> <<>>,
     value |-> IF NeedsSummary(review_data, summ)
               THEN Summarized(NormalizedRecord(review_data),
                               SummarizeWithOllama(CleanedOf(review_data), 2,
                                   IF /\ o.kind \notin {"ok", "none"}
                                      /\ Len(replies) > 0
                                      /\ replies[Len(replies)].kind = "ok"
                                   THEN replies[Len(replies)] ELSE o))
               ELSE NormalizedRecord(review_data)]

\* process_review(review_data, summarize) when the endpoint call (if any) does `o`:
\* [raised, value, error]; nothing in it raises for a record that is a mapping
ProcessReview(review_data, summ, o) ==
    [raised |-> FALSE, error |-> <<>>,
     value |-> IF NeedsSummary(review_data, summ)
               THEN Summarized(NormalizedRecord(review_data),
                               SummarizeWithOllama(CleanedOf(review_data), 2, o))
               ELSE NormalizedRecord(review_data)]

\* a faulty variant of AppendedRecord: the except block appends the error alone
AppendedRecordErrorOnly(review, r) ==
    IF r.raised THEN PyDict(<<ProcessingError>>, <<PyStr(r.error)>>) ELSE r.value

\* the body of the loop of process_multiple_reviews: the record appended for `review`
AppendedRecord(review, r) ==
    IF r.raised THEN DictSet(review, ProcessingError, PyStr(r.error)) ELSE r.value

ProcessedEntry(review, summ, o) == AppendedRecord(review, ProcessReview(review, summ, o))

-----------------------------------------------------------------------------
(* The raw records and the summarizer replies the batches are drawn from *)

MaxBatch == 3      \* the longest list of reviews

Id == Chars("id")
Score == Chars("score")

\* raw records as the extractor and other callers hand them over: posts, a comment
\* (text under "body"), records with absent, None and non-str fields, and records
\* that went through the pipeline before and still carry its fields
RawRecords ==
    <<PyDict(<<Id, Title, Selftext, Score>>,
             <<PyStr(Chars("r1")), PyStr(Chars("Great Product! ") \o <<128522>>),
               PyStr(Chars("I   loved this!!!  \n\n  #awesome")), PyInt(150)>>),
      PyDict(<<Id, Title, Selftext, Score>>,
             <<PyStr(Chars("r2")), PyStr(Chars("Just a title")), PyStr(<<>>), PyInt(50)>>),
      PyDict(<<Id, Title, Selftext>>,
             <<PyStr(Chars("r3")), PyNone, PyNone>>),
      PyDict(<<Id, Selftext>>,
             <<PyStr(Chars("r4")), PyStr(Chars("Works... fine_ish @home"))>>),
      PyDict(<<Id, Title, Selftext>>,
             <<PyStr(Chars("r5")), PyStr(<<128293, 128293>>), PyStr(Chars(" \n "))>>),
      PyDict(<<Id, Title, Chars("body"), Chars("author")>>,
             <<PyStr(Chars("r6")), PyStr(<<67, 97, 102, 233>>), PyStr(Chars("me too")),
               PyStr(Chars("u1"))>>),
      PyDict(<<Id, Title, Selftext, CleanedText, Summary, SummaryError>>,
             <<PyStr(Chars("r7")), PyStr(Chars("Old")), PyStr(Chars("run")),
               PyStr(Chars("stale")), PyStr(Chars("old summary")), PyStr(Chars("old error"))>>),
      PyDict(<<Id, Title, Selftext, ConcatenatedText, Chars("subreddit")>>,
             <<PyStr(Chars("r8")), PyInt(42), PyStr(Chars("x")), PyStr(Chars("kept?")),
               PyStr(Chars("test"))>>),
      PyDict(<<Id, Title, Selftext>>,
             <<PyStr(Chars("r9")), PyStr(Chars("#@$%")), PyStr(Chars("***"))>>),
      PyDict(<<Id, Title, Selftext, Score, ProcessingError>>,
             <<PyStr(Chars("r10")), PyStr(Chars("Test")), PyStr(Chars("Body")), PyInt(200),
               PyStr(Chars("earlier"))>>)>>

\* the lists of reviews: every run of at most MaxBatch consecutive records, cyclically
ReviewBatches ==
    {[i \in 1..n |-> RawRecords[((a + i - 2) % Len(RawRecords)) + 1]] :
        a \in 1..Len(RawRecords), n \in 0..MaxBatch}

\* what one summarization call may do
SummarizerOutcomes ==
    {OkReply(Chars("Line one.\nLine two.\nLine three.")),
     OkReply(Chars("  First. \n\n Second.")),
     OkReply(<<>>),
     RequestException(Chars("Read timed out.")),
     OtherException(Chars("boom"))}

-----------------------------------------------------------------------------
(* The extractor as a state machine: a caller invokes one entry point, which *)
(* returns or raises; then the next call can be made.                       *)

ExtractIdle ==
    /\ op = "idle"
    /\ summary = PyNone
    /\ outcome = NoCall
    /\ path = "none"
    /\ info = PyNone
    /\ ret = PyNone
    /\ raised = FALSE

\* extract_structured_info(summary); the endpoint is contacted only for a summary
\* that is not blank
CallExtract ==
    /\ op = "idle"
    /\ fn = "idle"
    /\ \E summ \in Summaries, o \in EndpointOutcomes \cup {NoCall} :
          /\ (o = NoCall) <=> IsBlankSummary(summ)
          /\ \E r \in {ExtractStructuredInfo(summ, o)} :
                /\ op' = "extract"
                /\ summary' = summ
                /\ outcome' = o
                /\ path' = r.path
                /\ info' = r.parsed
                /\ ret' = IF r.raised THEN PyNone ELSE r.value
                /\ raised' = r.raised
    /\ UNCHANGED <<bvars, tvars, svars>>

\* _validate_structured_info(info), called directly
CallValidate ==
    /\ op = "idle"
    /\ fn = "idle"
    /\ \E v \in ValidateInputs :
          \E r \in {ValidateStructuredInfo(v)} :
                /\ op' = "validate"
                /\ summary' = PyNone
                /\ outcome' = NoCall
                /\ path' = IF r.raised THEN "raised" ELSE "validated"
                /\ info' = v
                /\ ret' = IF r.raised THEN PyNone ELSE r.value
                /\ raised' = r.raised
    /\ UNCHANGED <<bvars, tvars, svars>>

\* the caller takes the result
ExtractReturn ==
    /\ op # "idle"
    /\ op' = "idle"
    /\ summary' = PyNone
    /\ outcome' = NoCall
    /\ path' = "none"
    /\ info' = PyNone
    /\ ret' = PyNone
    /\ raised' = FALSE
    /\ UNCHANGED <<bvars, tvars, svars>>

-----------------------------------------------------------------------------
(* process_multiple_reviews as a state machine: one record at a time, the   *)
(* blocking endpoint call of a record being the only place where it waits.  *)

BatchIdle ==
    /\ reviews = <<>>
    /\ summarize = FALSE
    /\ pc = "idle"
    /\ idx = 1
    /\ processed_reviews = <<>>
    /\ replies = <<>>
    /\ calls = 0

\* process_multiple_reviews(reviews, summarize) is called
BatchInit ==
    /\ reviews \in ReviewBatches
    /\ summarize \in BOOLEAN
    /\ pc = "loop"
    /\ idx = 1
    /\ processed_reviews = <<>>
    /\ replies = <<>>
    /\ calls = 0

\* the next record: it is normalized and, unless it is to be summarized, appended
BeginReview ==
    /\ pc = "loop"
    /\ idx <= Len(reviews)
    /\ IF NeedsSummary(reviews[idx], summarize)
       THEN /\ pc' = "call"
            /\ calls' = calls + 1
            /\ UNCHANGED <<idx, processed_reviews, replies>>
       ELSE /\ processed_reviews' =
                  Append(processed_reviews, ProcessedEntry(reviews[idx], summarize, NoCall))
            /\ replies' = Append(replies, NoCall)
            /\ idx' = idx + 1
            /\ UNCHANGED <<pc, calls>>
    /\ UNCHANGED <<reviews, summarize, evars, tvars, svars>>

\* a faulty variant of EndpointReplies: a record whose summarization failed is left out
EndpointRepliesSkipsFailed ==
    /\ pc = "call"
    /\ \E o \in SummarizerOutcomes :
          /\ processed_reviews' =
                IF o.kind = "ok"
                THEN Append(processed_reviews, ProcessedEntry(reviews[idx], summarize, o))
                ELSE processed_reviews
          /\ replies' = Append(replies, o)
    /\ idx' = idx + 1
    /\ pc' = "loop"
    /\ UNCHANGED <<reviews, summarize, calls, evars, tvars, svars>>

\* a faulty variant of EndpointReplies: a failed call is sent once more for the same
\* record before the failure is recorded
EndpointRepliesRetries ==
    /\ pc = "call"
    /\ \E o \in SummarizerOutcomes :
          IF o.kind # "ok" /\ calls <= idx
          THEN /\ calls' = calls + 1
               /\ UNCHANGED <<pc, idx, processed_reviews, replies>>
          ELSE /\ processed_reviews' =
                     Append(processed_reviews, ProcessedEntry(reviews[idx], summarize, o))
               /\ replies' = Append(replies, o)
               /\ idx' = idx + 1
               /\ pc' = "loop"
               /\ calls' = calls
    /\ UNCHANGED <<reviews, summarize, evars, tvars, svars>>

\* the endpoint call of the record returns or fails; the record is appended
EndpointReplies ==
    /\ pc = "call"
    /\ \E o \in SummarizerOutcomes :
          /\ processed_reviews' =
                Append(processed_reviews, ProcessedEntry(reviews[idx], summarize, o))
          /\ replies' = Append(replies, o)
    /\ idx' = idx + 1
    /\ pc' = "loop"
    /\ UNCHANGED <<reviews, summarize, calls, evars, tvars, svars>>

\* return processed_reviews
BatchReturn ==
    /\ pc = "loop"
    /\ idx > Len(reviews)
    /\ pc' = "done"
    /\ UNCHANGED <<reviews, summarize, idx, processed_reviews, replies, calls, evars, tvars, svars>>

\* process_review raises an error that its own try block, which surrounds the
\* summarizer call only, does not contain (a failure while the record is read,
\* concatenated or cleaned); the except block of the loop appends the raw record
\* with processing_error = str(e) and the loop goes on
ReviewRaises ==
    /\ pc = "loop"
    /\ idx <= Len(reviews)
    /\ \E e \in {Chars("maximum recursion depth exceeded")} :
          /\ processed_reviews' =
                Append(processed_reviews,
                       AppendedRecord(reviews[idx], [raised |-> TRUE, error |-> e, value |-> PyNone]))
          /\ replies' = Append(replies, [kind |-> "fault", response |-> <<>>, error |-> e])
    /\ idx' = idx + 1
    /\ UNCHANGED <<reviews, summarize, pc, calls, evars, tvars, svars>>

-----------------------------------------------------------------------------
(* clean_text and summarize_with_ollama as a state machine: a caller invokes *)
(* one of them on a text, it returns or raises, then the next call is made.  *)

MaxText == 3        \* the longest text built from TextAlphabet
MaxLines == 3       \* the largest max_lines passed
MaxReplyLines == 3  \* the most lines of a generated endpoint response

\* one character of each kind clean_text tells apart: a Latin, a Cyrillic and a CJK
\* letter, a digit, a space, a newline, a kept punctuation mark, a removed symbol,
\* the underscore and an emoji
TextAlphabet == {97, 1078, 22909, 55, 32, 10, 33, 35, 95, 128522}

\* texts of the tests and texts with further whitespace, symbols and pictographs
SampleTexts ==
    {Chars("Great product! ") \o <<128522>> \o Chars(" Love it! ") \o <<10084, 65039>>,
     Chars("Amazing product!!! #awesome @company"),
     Chars("I   absolutely  loved   this\n\nproduct!!!"),
     Chars("Great! Works perfectly. Really amazing, isn't it?"),
     Chars("I   loved ") \o <<128522>> \o Chars(" this product!!!  \n\n  #amazing @company"),
     Chars("Caf") \o <<233>> \o Chars(" r") \o <<233>> \o Chars("sum") \o <<233>>
        \o Chars(" na") \o <<239>> \o Chars("ve"),
     <<128522, 128514, 10084, 65039, 127881>>,
     Chars("###@@@$$$%%%"),
     Chars("   \n\n   \t\t   "),
     Chars("!!!"), Chars("..."), Chars("?!"), Chars(" - "), Chars("'\""), Chars(".,!?;:'\"-"),
     Chars("Great product! Excellent ") \o <<1082, 1072, 1095, 1077, 1089, 1090, 1074, 1086>>
        \o Chars("! ") \o <<24456, 22909>> \o Chars("!"),
     Chars("a") \o <<160>> \o Chars("b") \o <<8195, 9>> \o Chars("c") \o <<12288>>,
     Chars("x ") \o <<128293>> \o Chars(" y # z"),
     Chars("step ") \o <<10102>> \o Chars(" then ") \o <<9733>> \o Chars(" m") \o <<178>>,
     Chars("snake_case __init__ 50% <b>bold</b> a+b=c"),
     <<32, 128522, 32>>, <<35, 32, 35>>, <<95, 95>>}

\* the arguments of clean_text: a str or None
CleanInputs ==
    {PyNone}
    \cup {PyStr(t) : t \in UNION {[1..n -> TextAlphabet] : n \in 0..MaxText}}
    \cup {PyStr(t) : t \in SampleTexts}

\* the arguments of summarize_with_ollama: blank and not blank
SummarizeTexts ==
    {PyStr(<<>>), PyStr(Chars(" ")), PyStr(Chars("  \n\t ")), PyStr(<<160>>),
     PyStr(Chars("Battery drains fast.")), PyStr(Chars(" ok "))}

\* the lines endpoint responses are made of: empty, blank, and two with text
ReplyLines == {<<>>, Chars("  "), Chars("One."), Chars(" Two. ") \o <<13>>}

\* a successful endpoint call answers up to MaxReplyLines such lines; a failing one
\* raises from requests.post, raise_for_status or response.json()
DirectOutcomes ==
    {OkReply(JoinStr(ls, <<10>>)) : ls \in UNION {[1..n -> ReplyLines] : n \in 0..MaxReplyLines}}
    \cup {RequestException(m) : m \in ErrorMessages}
    \cup {OtherException(m) : m \in ErrorMessages}

\* the titles and bodies concatenate_review_text is called with
ConcatenateInputs ==
    {PyNone, PyStr(<<>>), PyStr(Chars("Title text")), PyStr(Chars("Body text")),
     PyStr(Chars("Great Product")), PyStr(Chars("Works perfectly")), PyStr(Chars("  ")),
     PyStr(Chars(" padded \n")), PyStr(Chars("two  spaces")), PyInt(42)}

TextIdle ==
    /\ fn = "idle"
    /\ arg = PyNone
    /\ limit = 0
    /\ reply = NoCall
    /\ out = PyNone
    /\ failed = FALSE
    /\ err = <<>>

\* concatenate_review_text(title, body); arg holds the pair of arguments
CallConcatenate ==
    /\ fn = "idle"
    /\ op = "idle"
    /\ \E title \in ConcatenateInputs, body \in ConcatenateInputs :
          /\ fn' = "concatenate"
          /\ arg' = PyList(<<title, body>>)
          /\ out' = PyStr(ConcatenateReviewText(title, body))
    /\ limit' = 0
    /\ reply' = NoCall
    /\ failed' = FALSE
    /\ err' = <<>>
    /\ UNCHANGED <<evars, bvars, svars>>

\* clean_text(text)
CallClean ==
    /\ fn = "idle"
    /\ op = "idle"
    /\ \E t \in CleanInputs :
          /\ fn' = "clean"
          /\ arg' = t
          /\ out' = PyStr(CleanText(t))
    /\ limit' = 0
    /\ reply' = NoCall
    /\ failed' = FALSE
    /\ err' = <<>>
    /\ UNCHANGED <<evars, bvars, svars>>

\* summarize_with_ollama(text, max_lines); the endpoint is contacted only for a
\* text that is not blank
CallSummarize ==
    /\ fn = "idle"
    /\ op = "idle"
    /\ \E t \in SummarizeTexts, n \in 0..MaxLines, o \in DirectOutcomes \cup {NoCall} :
          /\ (o = NoCall) <=> IsBlank(t.s)
          /\ \E r \in {SummarizeWithOllama(t.s, n, o)} :
                /\ fn' = "summarize"
                /\ arg' = t
                /\ limit' = n
                /\ reply' = o
                /\ out' = IF r.raised THEN PyNone ELSE PyStr(r.value)
                /\ failed' = r.raised
                /\ err' = r.error
    /\ UNCHANGED <<evars, bvars, svars>>

\* the caller takes the result
TextReturn ==
    /\ fn # "idle"
    /\ fn' = "idle"
    /\ arg' = PyNone
    /\ limit' = 0
    /\ reply' = NoCall
    /\ out' = PyNone
    /\ failed' = FALSE
    /\ err' = <<>>
    /\ UNCHANGED <<evars, bvars, svars>>

-----------------------------------------------------------------------------
(* save_structured_reviews_to_json and the file system *)

MaxSaves == 2       \* the most calls of save_structured_reviews_to_json in a run

Models == {Chars("llama2"), Chars("mistral")}

\* os.path.dirname(path) for a path without doubled or trailing slashes
Dirname(output_file) ==
    IF RFind(output_file, 47) < 0 THEN <<>>
    ELSE IF RFind(output_file, 47) = 0 THEN <<47>>
    ELSE Slice(output_file, 0, RFind(output_file, 47))

\* the directories os.makedirs(output_dir) makes sure of: output_dir and the ones above
Ancestors(output_dir) ==
    {output_dir} \cup {Slice(output_dir, 0, i - 1) : i \in {k \in 2..Len(output_dir) : output_dir[k] = 47}}

\* datetime.now(timezone.utc).isoformat() at the k-th call: the clock advances
Now(k) == Chars("2024-01-01T00:00:0") \o IntToStr(k) \o Chars("+00:00")

\* output_data
OutputData(reviews_arg, generated_at, model_used) ==
    PyDict(<<Chars("metadata"), Chars("reviews")>>,
           <<PyDict(<<Chars("generated_at"), Chars("total_reviews"), Chars("model_used")>>,
                    <<PyStr(generated_at), PyInt(Len(reviews_arg)), PyStr(model_used)>>),
             PyList(reviews_arg)>>)

NoFile == [exists |-> FALSE, content |-> <<>>]

\* the records saved: structured records as the tests have them, one with a quote, a
\* newline and characters outside ASCII
SavedRecords ==
    <<PyDict(<<Chars("id"), Chars("sentiment"), Chars("test_steps"), Chars("test_environment")>>,
             <<PyStr(Chars("review1")), PyStr(Chars("Positive")), PyList(<<>>),
               PyDict(<<Chars("os"), Chars("other")>>,
                      <<PyStr(Chars("Windows 10")), PyStr(Chars("None"))>>)>>),
      PyDict(<<Chars("id"), Chars("summary"), Chars("score"), Chars("key_pain_point"),
               Chars("test_steps")>>,
             <<PyStr(Chars("review2")), PyNone, PyInt(3),
               PyStr(Chars("Crashes \"often\"\n ") \o <<128522, 32, 233>>),
               PyList(<<PyStr(Chars("Open app")), PyStr(Chars("Click button"))>>)>>)>>

SaveLists ==
    {<<>>, <<SavedRecords[1]>>, <<SavedRecords[1], SavedRecords[2]>>,
     <<SavedRecords[2], SavedRecords[1]>>}

Destinations == {Chars("reviews.json"), Chars("out/run1/reviews.json")}

\* what the file system does during a call: "ok", or the step that fails
IoOutcomes == {"ok", "makedirs_fails", "open_fails", "write_fails"}

SaveIdle ==
    /\ model = Chars("llama2")
    /\ dirs = {}
    /\ files = [d \in Destinations |-> NoFile]
    /\ saves = 0
    /\ save_call = [reviews |-> <<>>, output_file |-> <<>>, io |-> "none"]
    /\ save_result = "idle"
    /\ save_prev = NoFile

\* a processor constructed with one of the models, before any call
SaveInit ==
    /\ model \in Models
    /\ dirs \in {{}, {Chars("out")}}
    /\ files = [d \in Destinations |-> NoFile]
    /\ saves = 0
    /\ save_call = [reviews |-> <<>>, output_file |-> <<>>, io |-> "none"]
    /\ save_result = "idle"
    /\ save_prev = NoFile

\* a faulty variant of WrittenFile: the file is opened with mode 'a'
WrittenFileAppends(before, content) ==
    [exists |-> TRUE, content |-> before.content \o content]

\* with open(output_file, 'w') ... json.dump: what the file holds after `content`
\* was written to it
WrittenFile(before, content) == [exists |-> TRUE, content |-> content]

\* a faulty variant of SaveOutcome: the except block logs the error and returns
SaveOutcomeSwallows(io) == "ok"

\* the except block re-raises: the call returns only when no step failed
SaveOutcome(io) == IF io = "ok" THEN "ok" ELSE "raised"

\* one call save_structured_reviews_to_json(reviews_arg, output_file) during which
\* the file system does `io`
Save(reviews_arg, output_file, io) ==
    /\ saves < MaxSaves
    /\ saves' = saves + 1
    /\ save_call' = [reviews |-> reviews_arg, output_file |-> output_file, io |-> io]
    /\ save_prev' = files[output_file]
    /\ save_result' = SaveOutcome(io)
    /\ model' = model
    /\ LET output_dir == Dirname(output_file)
           needed == output_dir # <<>> /\ output_dir \notin dirs
       IN  IF io = "makedirs_fails"
           THEN /\ needed
                /\ \E stop \in Ancestors(output_dir) \ dirs :
                      dirs' = dirs \cup {a \in Ancestors(output_dir) : Len(a) < Len(stop)}
                /\ files' = files
           ELSE /\ dirs' = IF needed THEN dirs \cup Ancestors(output_dir) ELSE dirs
                /\ \E content \in {JsonDumps(OutputData(reviews_arg, Now(saves), model), 0)} :
                      CASE io = "open_fails" -> files' = files
                        [] io = "write_fails" ->
                              \E n \in {0, Len(content) \div 2} :
                                  files' = [files EXCEPT ![output_file] =
                                                WrittenFile(files[output_file], SubSeq(content, 1, n))]
                        [] io = "ok" ->
                              files' = [files EXCEPT ![output_file] =
                                            WrittenFile(files[output_file], content)]

\* save_structured_reviews_to_json(reviews, output_file)
SaveCall ==
    /\ pc = "idle"
    /\ \E reviews_arg \in SaveLists, output_file \in Destinations, io \in IoOutcomes :
          Save(reviews_arg, output_file, io)
    /\ UNCHANGED <<evars, bvars, tvars>>

\* the records process_multiple_reviews returned are saved, which ends the run
SaveProcessed ==
    /\ pc = "done"
    /\ \E output_file \in Destinations, io \in IoOutcomes :
          Save(processed_reviews, output_file, io)
    /\ pc' = "saved"
    /\ UNCHANGED <<reviews, summarize, idx, processed_reviews, replies, calls, evars, tvars>>

-----------------------------------------------------------------------------
(* Specifications *)

ExtractInit == ExtractIdle /\ BatchIdle /\ TextIdle /\ SaveIdle
ExtractNext == CallExtract \/ CallValidate \/ ExtractReturn
SpecExtract == ExtractInit /\ [][ExtractNext]_vars

BatchStart == BatchInit /\ ExtractIdle /\ TextIdle /\ SaveIdle
BatchNext == BeginReview \/ EndpointReplies \/ BatchReturn
SpecBatch == BatchStart /\ [][BatchNext]_vars

\* a step of the loop as the program counter and the index show it: every step of
\* BatchNext changes one of the two, and one is possible exactly while the batch has
\* not returned
LoopStep ==
    /\ pc \in {"loop", "call"}
    /\ \E p \in {"loop", "call", "done"}, k \in {idx, idx + 1} :
          /\ <<p, k>> # <<pc, idx>>
          /\ pc' = p
          /\ idx' = k

\* the loop is sequential code that keeps running, and every endpoint call returns or
\* fails in the end (requests.post has a timeout): weak fairness of the steps of the
\* loop, whose enabling does not depend on what the records hold
SpecBatchLive == SpecBatch /\ WF_<<pc, idx>>(LoopStep)

TextNext == CallConcatenate \/ CallClean \/ CallSummarize \/ TextReturn
SpecText == ExtractInit /\ [][TextNext]_vars

CallsNext == ExtractNext \/ TextNext
SpecCalls == ExtractInit /\ [][CallsNext]_vars

SaveStart == ExtractIdle /\ BatchIdle /\ TextIdle /\ SaveInit
SpecSave == SaveStart /\ [][SaveCall]_vars

PipelineNext == BatchNext \/ ReviewRaises \/ SaveProcessed
SpecPipeline == BatchStart /\ [][PipelineNext]_vars

-----------------------------------------------------------------------------
(* Properties of the batch (SpecBatch).  processed_reviews[i] is the record *)
(* returned for reviews[i], and replies[i] is what the endpoint did for it. *)

Range(f) == {f[i] : i \in 1..Len(f)}
KeySet(d) == Range(d.keys)

\* the summarizer call of a record failed
Failed(o) == o.kind \in {"request_exception", "exception"}
FailedAt == {i \in 1..Len(replies) : Failed(replies[i])}

\* C1: process_multiple_reviews returns exactly one record per input record, in
\* input order: after every step the records appended so far are those of the first
\* idx - 1 inputs, each with the id of its input, and at the return there are as
\* many records as inputs, whichever summarizer calls failed.
C1_BatchKeepsEveryRecord ==
    /\ Len(processed_reviews) = idx - 1
    /\ idx - 1 <= Len(reviews)
    /\ \A i \in 1..Len(processed_reviews) :
          /\ HasKey(processed_reviews[i], Id)
          /\ DictGet(processed_reviews[i], Id) = DictGet(reviews[i], Id)
    /\ pc = "done" => Len(processed_reviews) = Len(reviews)

\* a batch of several records has returned, with a failed and a successful call
C1_Witness ==
    /\ pc = "done"
    /\ Len(reviews) >= 2
    /\ Len(processed_reviews) = Len(reviews)
    /\ FailedAt # {}
    /\ \E i \in 1..Len(replies) : replies[i].kind = "ok"

\* C2: in a batch processed with summarize = True in which the summarizer fails for
\* exactly one record, that record carries summary_error (the text of the error), and
\* every other record is what process_review gives for it alone: it has
\* concatenated_text and cleaned_text and, when its cleaned text is not empty, a
\* summary that is a str.
C2_OneFailureLeavesOthersWhole ==
    (pc = "done" /\ summarize /\ Cardinality(FailedAt) = 1) =>
        \A i \in 1..Len(reviews) :
            IF i \in FailedAt
            THEN /\ HasKey(processed_reviews[i], SummaryError)
                 /\ DictGet(processed_reviews[i], SummaryError) = PyStr(replies[i].error)
            ELSE /\ processed_reviews[i] = ProcessReview(reviews[i], TRUE, replies[i]).value
                 /\ HasKey(processed_reviews[i], ConcatenatedText)
                 /\ HasKey(processed_reviews[i], CleanedText)
                 /\ DictGet(processed_reviews[i], CleanedText).t = "str"
                 /\ DictGet(processed_reviews[i], CleanedText).s # <<>> =>
                       /\ HasKey(processed_reviews[i], Summary)
                       /\ DictGet(processed_reviews[i], Summary).t = "str"

\* the one failure is in the middle of the batch, between two summarized records
C2_Witness ==
    /\ pc = "done"
    /\ summarize
    /\ Cardinality(FailedAt) = 1
    /\ \E i \in FailedAt :
          /\ HasKey(processed_reviews[i], SummaryError)
          /\ \E j \in 1..(i - 1) : replies[j].kind = "ok" /\ HasKey(processed_reviews[j], Summary)
          /\ \E k \in (i + 1)..Len(reviews) :
                replies[k].kind = "ok" /\ HasKey(processed_reviews[k], Summary)

-----------------------------------------------------------------------------
(* Properties of the extractor (SpecExtract).  After a call, info is the    *)
(* parsed response (the argument of _validate_structured_info) and ret the  *)
(* record returned.                                                         *)

SchemaKeys == ScalarFields \o <<TestSteps, TestEnvironment>>
Sentiment == Chars("sentiment")

\* the default of each schema field, as the docstrings and the tests state it
DocumentedDefault(key) ==
    CASE key = Chars("product_or_service_name") -> PyStr(Chars("Not specified"))
      [] key = Chars("key_point_description") -> PyStr(<<>>)
      [] key = Chars("key_pain_point") -> PyStr(<<>>)
      [] key = Chars("sentiment") -> PyStr(Chars("Unknown"))
      [] key = Chars("test_steps") -> PyList(<<>>)
      [] key = Chars("test_environment") ->
            PyDict(<<Chars("os"), Chars("software_version"), Chars("product_model"), Chars("other")>>,
                   [i \in 1..4 |-> PyStr(Chars("Not specified"))])

HoldsDefaults(rec) ==
    \A key \in Range(SchemaKeys) : HasKey(rec, key) /\ DictGet(rec, key) = DocumentedDefault(key)

StartsWith(s, prefix) == Len(s) >= Len(prefix) /\ SubSeq(s, 1, Len(prefix)) = prefix

\* ret is the default record with an extraction_error that names the category
ErrorNamed(category) ==
    /\ HasKey(ret, ExtractionError)
    /\ DictGet(ret, ExtractionError).t = "str"
    /\ StartsWith(DictGet(ret, ExtractionError).s, category)
    /\ HoldsDefaults(ret)

FailurePaths == {"api_error", "unexpected_error", "parse_error", "validate_error"}

\* C3: every record returned by extract_structured_info or by
\* _validate_structured_info has the six schema fields and no other key, except
\* extraction_error, which only a failure path adds; its test_environment has the
\* four keys os, software_version, product_model, other and no other key.
C3_ReturnedRecordHasSchemaShape ==
    (op # "idle" /\ ~raised) =>
        /\ ret.t = "dict"
        /\ Len(ret.keys) = Cardinality(KeySet(ret))
        /\ KeySet(ret) \in {Range(SchemaKeys), Range(SchemaKeys) \cup {ExtractionError}}
        /\ HasKey(ret, ExtractionError) => op = "extract" /\ path \in FailurePaths
        /\ DictGet(ret, TestEnvironment).t = "dict"
        /\ Len(DictGet(ret, TestEnvironment).keys) = Cardinality(KeySet(DictGet(ret, TestEnvironment)))
        /\ KeySet(DictGet(ret, TestEnvironment)) = Range(EnvironmentKeys)

\* the parsed response had a key outside the schema and an environment key outside
\* the four, and the record returned has neither
C3_Witness ==
    /\ op = "extract"
    /\ path = "validated"
    /\ info.t = "dict"
    /\ HasKey(info, Chars("confidence"))
    /\ HasKey(info, TestEnvironment)
    /\ DictGet(info, TestEnvironment).t = "dict"
    /\ HasKey(DictGet(info, TestEnvironment), Chars("ram"))
    /\ ~HasKey(ret, Chars("confidence"))
    /\ ~HasKey(DictGet(ret, TestEnvironment), Chars("ram"))

\* C4: extract_structured_info never raises; a failed request gives the default
\* record with an extraction_error that starts "API error", any other error one
\* that starts "Unexpected error", a response whose JSON part does not parse one
\* that starts "JSON parsing error"; and a record with extraction_error holds the
\* default of every schema field.
C4_FailuresReturnDefaultsWithCategory ==
    op = "extract" =>
        /\ ~raised
        /\ ret.t = "dict"
        /\ outcome.kind = "request_exception" => ErrorNamed(Chars("API error"))
        /\ outcome.kind = "exception" => ErrorNamed(Chars("Unexpected error"))
        /\ (outcome.kind = "ok" /\ ~ParseResponse(Strip(outcome.response)).ok) =>
              ErrorNamed(Chars("JSON parsing error"))
        /\ HasKey(ret, ExtractionError) => HoldsDefaults(ret)

\* the response parsed to a value that is no mapping, _validate_structured_info
\* raised on it, and the caller still got the default record with the category
C4_Witness ==
    /\ op = "extract"
    /\ outcome.kind = "ok"
    /\ path = "validate_error"
    /\ info.t # "dict"
    /\ ~raised
    /\ ErrorNamed(Chars("Unexpected error"))

\* the text json.loads is given: the substring from the first "{" to the last "}"
\* when the response has a "{" that is not after its last "}", else the response
JsonPart(r) ==
    IF (\E i \in 1..Len(r) : r[i] = LeftBrace) /\ (\E j \in 1..Len(r) : r[j] = RightBrace)
    THEN LET first == CHOOSE i \in 1..Len(r) :
                          r[i] = LeftBrace /\ \A k \in 1..(i - 1) : r[k] # LeftBrace
             last == CHOOSE j \in 1..Len(r) :
                         r[j] = RightBrace /\ \A k \in (j + 1)..Len(r) : r[k] # RightBrace
         IN  IF first <= last THEN SubSeq(r, first, last) ELSE r
    ELSE r

\* C5 (as the code has it): one parse is attempted: of the substring from the first
\* "{" to the last "}" when there is such a substring, and of the whole response
\* only when there is none.  The parse-failure record is returned exactly when that
\* one parse fails, also when the whole response is valid JSON.
C5_OneParseAttempt ==
    (op = "extract" /\ outcome.kind = "ok") =>
        /\ path = "parse_error" <=> ~JsonLoads(JsonPart(Strip(outcome.response))).ok
        /\ path # "parse_error" => info = JsonLoads(JsonPart(Strip(outcome.response))).val

\* the substring does not parse, the whole response does, and the record returned
\* is the parse-failure record
C5_Witness ==
    /\ op = "extract"
    /\ outcome.kind = "ok"
    /\ JsonPart(Strip(outcome.response)) # Strip(outcome.response)
    /\ ~JsonLoads(JsonPart(Strip(outcome.response))).ok
    /\ JsonLoads(Strip(outcome.response)).ok
    /\ path = "parse_error"
    /\ ErrorNamed(Chars("JSON parsing error"))

\* C5 as stated: the parse-failure record is returned only when the parse of the
\* substring and the parse of the whole response both fail
C5_TwoStageFallback ==
    (op = "extract" /\ outcome.kind = "ok" /\ path = "parse_error") =>
        /\ ~JsonLoads(JsonPart(Strip(outcome.response))).ok
        /\ ~JsonLoads(Strip(outcome.response)).ok

\* C6: for an input mapping, each of the four scalar fields of the validated record
\* is the string form of the input's value when the input has the key (123 gives
\* "123", True gives "True") and the documented default when it has not; the value
\* of a field depends on no other key of the input.
C6_ScalarsStringifiedOrDefault ==
    (op # "idle" /\ path = "validated" /\ info.t = "dict") =>
        \A i \in 1..Len(ScalarFields) :
            LET key == ScalarFields[i]
            IN  /\ HasKey(ret, key)
                /\ DictGet(ret, key).t = "str"
                /\ ~HasKey(info, key) => DictGet(ret, key) = DocumentedDefault(key)
                /\ HasKey(info, key) =>
                      /\ DictGet(ret, key).s = PyStrOf(DictGet(info, key))
                      /\ DictGet(info, key).t = "str" => DictGet(ret, key) = DictGet(info, key)
                      /\ DictGet(info, key) = PyInt(123) => DictGet(ret, key).s = Chars("123")
                      /\ DictGet(info, key) = PyInt(0) => DictGet(ret, key).s = Chars("0")
                      /\ DictGet(info, key) = PyBool(TRUE) => DictGet(ret, key).s = Chars("True")
                      /\ DictGet(info, key) = PyBool(FALSE) => DictGet(ret, key).s = Chars("False")
                      /\ DictGet(info, key) = PyNone => DictGet(ret, key).s = Chars("None")

\* _validate_structured_info got a mapping with a number under one scalar key and
\* without another scalar key
C6_Witness ==
    /\ op = "validate"
    /\ path = "validated"
    /\ info.t = "dict"
    /\ HasKey(info, Chars("key_pain_point"))
    /\ DictGet(info, Chars("key_pain_point")) = PyInt(123)
    /\ DictGet(ret, Chars("key_pain_point")) = PyStr(Chars("123"))
    /\ ~HasKey(info, Chars("product_or_service_name"))
    /\ DictGet(ret, Chars("product_or_service_name")) = PyStr(Chars("Not specified"))

\* the raw record i came without summary and without summary_error, so that these
\* two keys of its processed record are the work of process_review
FreshAt(i) == ~HasKey(reviews[i], Summary) /\ ~HasKey(reviews[i], SummaryError)

\* C7 (as the code has it): a processed record has summary_error exactly when its
\* summarizer call failed, and it then has summary too, with the value None; after
\* a successful call it has a summary that is a str and no summary_error; without
\* a call it has neither key.  So a str summary and summary_error never meet, but
\* the two keys do.
C7_SummaryIsNoneBesideSummaryError ==
    \A i \in 1..Len(processed_reviews) :
        FreshAt(i) =>
            /\ HasKey(processed_reviews[i], SummaryError) <=> Failed(replies[i])
            /\ HasKey(processed_reviews[i], Summary) <=> replies[i].kind # "none"
            /\ Failed(replies[i]) =>
                  /\ DictGet(processed_reviews[i], Summary) = PyNone
                  /\ DictGet(processed_reviews[i], SummaryError) = PyStr(replies[i].error)
            /\ replies[i].kind = "ok" => DictGet(processed_reviews[i], Summary).t = "str"

\* the summarizer failed for a record and the record has both keys
C7_Witness ==
    \E i \in 1..Len(processed_reviews) :
        /\ FreshAt(i)
        /\ Failed(replies[i])
        /\ HasKey(processed_reviews[i], SummaryError)
        /\ HasKey(processed_reviews[i], Summary)
        /\ DictGet(processed_reviews[i], Summary) = PyNone

\* C7 as stated: no processed record has both summary and summary_error, and after
\* a summarizer failure the record has summary_error and no summary
C7_SummaryKeysExclusive ==
    \A i \in 1..Len(processed_reviews) :
        FreshAt(i) =>
            /\ ~(HasKey(processed_reviews[i], Summary) /\ HasKey(processed_reviews[i], SummaryError))
            /\ Failed(replies[i]) =>
                  /\ HasKey(processed_reviews[i], SummaryError)
                  /\ ~HasKey(processed_reviews[i], Summary)

\* the keys process_review writes into the record of input i
WrittenAt(i) ==
    {ConcatenatedText, CleanedText}
    \cup (IF replies[i].kind # "none" THEN {Summary} ELSE {})
    \cup (IF Failed(replies[i]) THEN {SummaryError} ELSE {})

C9_SentimentIsStringFormOrUnknown ==
    (op # "idle" /\ ~raised) =>
        /\ HasKey(ret, Sentiment)
        /\ DictGet(ret, Sentiment).t = "str"
        /\ DictGet(ret, Sentiment).s =
              IF path = "validated" /\ info.t = "dict" /\ HasKey(info, Sentiment)
              THEN PyStrOf(DictGet(info, Sentiment))
              ELSE Chars("Unknown")

\* the model answered a sentiment outside the five names and the record has it
C9_Witness ==
    /\ op = "extract"
    /\ path = "validated"
    /\ info.t = "dict"
    /\ HasKey(info, Sentiment)
    /\ DictGet(info, Sentiment) = PyStr(Chars("Great"))
    /\ DictGet(ret, Sentiment) = PyStr(Chars("Great"))

\* C9 as stated: the sentiment of every returned record is one of the five names
C9_SentimentInFiveNames ==
    (op # "idle" /\ ~raised) =>
        DictGet(ret, Sentiment) \in
            {PyStr(Chars("Positive")), PyStr(Chars("Negative")), PyStr(Chars("Neutral")),
             PyStr(Chars("Mixed")), PyStr(Chars("Unknown"))}

\* C10: for an input mapping, test_steps of the validated record is a list of str:
\* for an input list, of the same length, element i being the string form of input
\* element i; for any other input value, the one-element list of its string form;
\* without the key, the empty list.
C10_TestStepsStringified ==
    (op # "idle" /\ path = "validated" /\ info.t = "dict") =>
        LET steps == DictGet(ret, TestSteps)
        IN  /\ steps.t = "list"
            /\ \A i \in 1..Len(steps.vals) : steps.vals[i].t = "str"
            /\ ~HasKey(info, TestSteps) => steps.vals = <<>>
            /\ (HasKey(info, TestSteps) /\ DictGet(info, TestSteps).t = "list") =>
                  /\ Len(steps.vals) = Len(DictGet(info, TestSteps).vals)
                  /\ \A i \in 1..Len(steps.vals) :
                        steps.vals[i].s = PyStrOf(DictGet(info, TestSteps).vals[i])
            /\ (HasKey(info, TestSteps) /\ DictGet(info, TestSteps).t # "list") =>
                  steps.vals = <<PyStr(PyStrOf(DictGet(info, TestSteps)))>>

\* the input list holds a str, a number and further elements, and comes out as
\* long, in order, the number as its digits
C10_Witness ==
    /\ op = "validate"
    /\ path = "validated"
    /\ info.t = "dict"
    /\ HasKey(info, TestSteps)
    /\ DictGet(info, TestSteps).t = "list"
    /\ Len(DictGet(info, TestSteps).vals) >= 3
    /\ DictGet(info, TestSteps).vals[1] = PyStr(Chars("Open app"))
    /\ DictGet(info, TestSteps).vals[2] = PyInt(2)
    /\ Len(DictGet(ret, TestSteps).vals) = Len(DictGet(info, TestSteps).vals)
    /\ DictGet(ret, TestSteps).vals[1] = PyStr(Chars("Open app"))
    /\ DictGet(ret, TestSteps).vals[2] = PyStr(Chars("2"))

\* C11: for an input mapping, test_environment of the validated record has exactly
\* the four recognized keys, in the documented order; each holds the string form of
\* the input's value when the input test_environment is a mapping that has the key,
\* and "Not specified" otherwise (key missing, test_environment absent or not a
\* mapping); the other keys of the input test_environment are not copied.
C11_EnvironmentStringifiedOrSentinel ==
    (op # "idle" /\ path = "validated" /\ info.t = "dict") =>
        LET environment == DictGet(ret, TestEnvironment)
            given == HasKey(info, TestEnvironment) /\ DictGet(info, TestEnvironment).t = "dict"
        IN  /\ environment.t = "dict"
            /\ environment.keys = EnvironmentKeys
            /\ \A i \in 1..Len(EnvironmentKeys) :
                  LET key == EnvironmentKeys[i]
                  IN  IF given /\ HasKey(DictGet(info, TestEnvironment), key)
                      THEN DictGet(environment, key) =
                              PyStr(PyStrOf(DictGet(DictGet(info, TestEnvironment), key)))
                      ELSE DictGet(environment, key) = NotSpecified

\* the input test_environment holds a number under os, null under other and the
\* unrecognized key ram, and lacks the two remaining keys
C11_Witness ==
    /\ op = "validate"
    /\ path = "validated"
    /\ info.t = "dict"
    /\ HasKey(info, TestEnvironment)
    /\ DictGet(info, TestEnvironment).t = "dict"
    /\ HasKey(DictGet(info, TestEnvironment), Chars("os"))
    /\ HasKey(DictGet(info, TestEnvironment), Chars("other"))
    /\ DictGet(DictGet(info, TestEnvironment), Chars("os")) = PyInt(14)
    /\ DictGet(DictGet(info, TestEnvironment), Chars("other")) = PyNone
    /\ HasKey(DictGet(info, TestEnvironment), Chars("ram"))
    /\ ~HasKey(DictGet(info, TestEnvironment), Chars("product_model"))
    /\ DictGet(DictGet(ret, TestEnvironment), Chars("os")) = PyStr(Chars("14"))
    /\ DictGet(DictGet(ret, TestEnvironment), Chars("other")) = PyStr(Chars("None"))
    /\ DictGet(DictGet(ret, TestEnvironment), Chars("product_model")) = NotSpecified
    /\ ~HasKey(DictGet(ret, TestEnvironment), Chars("ram"))

\* the lines of a response that are not blank, each trimmed
NonBlankLines(response) ==
    LET kept == SelectSeq(SplitLines(response), LAMBDA line : ~IsBlank(line))
    IN  [i \in 1..Len(kept) |-> Strip(kept[i])]

\* the first n elements of xs, all of them when there are fewer
FirstN(xs, n) == SubSeq(xs, 1, IF n <= Len(xs) THEN n ELSE Len(xs))

\* C12: on a successful endpoint call summarize_with_ollama(text, max_lines) returns
\* the first max_lines non-blank lines of the response (all of them when there are
\* fewer), each trimmed, joined by newlines; blank lines do not count toward
\* max_lines, and the result has at most max_lines lines.
C12_FirstNonBlankLines ==
    (fn = "summarize" /\ reply # NoCall /\ reply.kind = "ok") =>
        /\ ~failed
        /\ out = PyStr(JoinStr(FirstN(NonBlankLines(reply.response), limit), <<10>>))
        /\ Len(SelectSeq(out.s, LAMBDA c : c = 10)) < (IF limit = 0 THEN 1 ELSE limit)

\* C13: for a text that is not blank, a failed endpoint call (transport failure,
\* non-success status, any other exception) makes summarize_with_ollama raise that
\* very error to its caller and return no value, not even the empty string; and it
\* raises only when the call failed.
C13_FailedCallRaises ==
    fn = "summarize" =>
        /\ (reply # NoCall /\ reply.kind # "ok") =>
              /\ failed
              /\ out = PyNone
              /\ err = reply.error
        /\ failed => (reply # NoCall /\ reply.kind # "ok" /\ ~IsBlank(arg.s))

\* the request for a text that is not blank timed out, and the caller got the error
C13_Witness ==
    /\ fn = "summarize"
    /\ ~IsBlank(arg.s)
    /\ reply = RequestException(Chars("Read timed out."))
    /\ failed
    /\ out = PyNone
    /\ err = Chars("Read timed out.")

\* the number of records so far for which the endpoint was contacted
Contacted == Cardinality({i \in 1..Len(replies) : replies[i] # NoCall})

\* C14: every processed record has concatenated_text and cleaned_text; the summarizer
\* is invoked for a record exactly when summarize is true and its cleaned text is not
\* empty; a record it is not invoked for gets neither summary nor summary_error from
\* process_review and costs no request; and process_review returns whatever the
\* summarizer does, so no record gets processing_error from a summarizer failure.
C14_SummarizerInvokedIffCleaned ==
    /\ calls = Contacted + (IF pc = "call" THEN 1 ELSE 0)
    /\ \A i \in 1..Len(processed_reviews) :
          LET rec == processed_reviews[i]
          IN  /\ HasKey(rec, ConcatenatedText) /\ DictGet(rec, ConcatenatedText).t = "str"
              /\ HasKey(rec, CleanedText) /\ DictGet(rec, CleanedText).t = "str"
              /\ (replies[i] # NoCall) <=> (summarize /\ DictGet(rec, CleanedText).s # <<>>)
              /\ replies[i] # NoCall => HasKey(rec, Summary)
              /\ (replies[i] = NoCall /\ FreshAt(i)) =>
                    (~HasKey(rec, Summary) /\ ~HasKey(rec, SummaryError))
              /\ HasKey(rec, ProcessingError) =>
                    /\ HasKey(reviews[i], ProcessingError)
                    /\ DictGet(rec, ProcessingError) = DictGet(reviews[i], ProcessingError)

\* a batch processed with summarize true: one record cleans to the empty text and was
\* not sent, another was sent and its call failed; neither has processing_error
C14_Witness ==
    /\ pc = "done"
    /\ summarize
    /\ \E i, j \in 1..Len(processed_reviews) :
          /\ HasKey(reviews[i], Title)
          /\ DictGet(reviews[i], Title).t = "str"
          /\ DictGet(reviews[i], Title).s # <<>>
          /\ DictGet(processed_reviews[i], CleanedText).s = <<>>
          /\ replies[i] = NoCall
          /\ ~HasKey(processed_reviews[i], Summary)
          /\ ~HasKey(processed_reviews[i], ProcessingError)
          /\ replies[j].kind = "request_exception"
          /\ HasKey(processed_reviews[j], SummaryError)
          /\ ~HasKey(processed_reviews[j], ProcessingError)
    /\ calls = Contacted
    /\ calls < Len(reviews)

\* C15: a text that is empty or only whitespace is answered without a request to
\* the endpoint: summarize_with_ollama returns "", and extract_structured_info
\* returns exactly the documented default record (the six schema keys, product name
\* "Not specified", sentiment "Unknown", no test steps, four environment fields
\* "Not specified") without extraction_error.
C15_BlankInputShortCircuits ==
    /\ (fn = "summarize" /\ IsBlank(arg.s)) =>
          /\ reply = NoCall
          /\ ~failed
          /\ out = PyStr(<<>>)
    /\ (op = "extract" /\ summary.t = "str" /\ IsBlank(summary.s)) =>
          /\ outcome = NoCall
          /\ ~raised
          /\ ret.t = "dict"
          /\ ret.keys = SchemaKeys
          /\ HoldsDefaults(ret)
          /\ ~HasKey(ret, ExtractionError)

\* extract_structured_info was called with a whitespace-only summary
C15_Witness ==
    /\ op = "extract"
    /\ summary = PyStr(Chars("  \n"))
    /\ outcome = NoCall
    /\ DictGet(ret, Sentiment) = PyStr(Chars("Unknown"))
    /\ DictGet(ret, TestSteps) = PyList(<<>>)

\* C16: clean_text is idempotent: cleaning the text it returned returns that text.
C16_CleanTextIdempotent ==
    fn = "clean" => CleanText(out) = out.s

\* a text with an emoji and a removed symbol between spaces was cleaned to a text
\* that is shorter and not empty
C16_Witness ==
    /\ fn = "clean"
    /\ arg = PyStr(Chars("x ") \o <<128293>> \o Chars(" y # z"))
    /\ out = PyStr(Chars("x y z"))
    /\ CleanText(out) = Chars("x y z")

\* a letter or a digit of any script: what \w matches, the underscore left aside
IsLetterOrDigit(c) == IsWordChar(c) /\ c # 95

\* the nine marks . , ! ? ; : ' " -
NineMarks == {46, 44, 33, 63, 59, 58, 39, 34, 45}

\* C17: every character of the text clean_text returns is a letter or a digit (of
\* any script), a whitespace character or one of the nine marks . , ! ? ; : ' " - ;
\* every other character, the underscore among them, is removed.
C17_OnlyLettersDigitsSpacesAndNineMarks ==
    fn = "clean" =>
        \A i \in 1..Len(out.s) :
            IsLetterOrDigit(out.s[i]) \/ IsSpace(out.s[i]) \/ out.s[i] \in NineMarks

\* every character of s satisfies P
AllOf(s, P(_)) == \A i \in 1..Len(s) : P(s[i])

\* an ASCII punctuation character (the underscore, which \w matches, left aside)
IsPunctuation(c) ==
    c \in 33..47 \/ c \in 58..64 \/ c \in 91..94 \/ c = 96 \/ c \in 123..126

\* a character clean_text removes or treats as whitespace: one of the emoji ranges,
\* whitespace, or a symbol that is no letter, digit, underscore or kept mark
IsDropped(c) == IsEmoji(c) \/ IsSpace(c) \/ (~IsWordChar(c) /\ c \notin NineMarks)

IsNineMark(c) == c \in NineMarks

\* C18 (as the code has it): clean_text returns "" for None, for "" and for every
\* text made only of emoji, whitespace and removed symbols such as # @ $ %, in any
\* mix; a text made only of the nine kept marks is returned as it is, not as "".
C18_EmptyForDroppedCharactersOnly ==
    fn = "clean" =>
        /\ (arg = PyNone \/ AllOf(arg.s, IsDropped)) => out = PyStr(<<>>)
        /\ (arg.t = "str" /\ arg.s # <<>> /\ AllOf(arg.s, IsNineMark)) => out = arg

\* a text of exclamation marks only came back unchanged
C18_Witness ==
    /\ fn = "clean"
    /\ arg = PyStr(Chars("!!!"))
    /\ out = PyStr(Chars("!!!"))

\* C18 as stated: clean_text returns "" for empty or absent input and for every text
\* that consists only of emoji, only of punctuation, or only of whitespace.
C18_EmptyForEmojiPunctuationWhitespace ==
    (/\ fn = "clean"
     /\ \/ arg = PyNone
        \/ AllOf(arg.s, IsEmoji)
        \/ AllOf(arg.s, IsPunctuation)
        \/ AllOf(arg.s, IsSpace)) => out = PyStr(<<>>)

\* the emoji and pictograph ranges the documentation enumerates: 1F600-1F64F,
\* 1F300-1F5FF, 1F680-1F6FF, 1F1E0-1F1FF, 1F900-1F9FF, 1FA00-1FA6F, 1FA70-1FAFF,
\* 2600-26FF, 2700-27BF
InEnumeratedRange(c) ==
    \/ c \in 128512..128591 \/ c \in 127744..128511 \/ c \in 128640..128767
    \/ c \in 127456..127487 \/ c \in 129280..129535 \/ c \in 129536..129647
    \/ c \in 129648..129791 \/ c \in 9728..9983 \/ c \in 9984..10175

\* a letter or digit that lies outside the enumerated ranges
IsPlainLetterOrDigit(c) == IsLetterOrDigit(c) /\ ~InEnumeratedRange(c)

\* C19: the text clean_text returns has no code point of the enumerated emoji and
\* pictograph ranges; the letters and digits of the input outside those ranges are
\* the letters and digits of the output, in the same order; and every run of such
\* characters in the input stands in the output as it was.
C19_NoEmojiAndLettersKept ==
    fn = "clean" =>
        /\ \A i \in 1..Len(out.s) : ~InEnumeratedRange(out.s[i])
        /\ SelectSeq(out.s, IsLetterOrDigit) = SelectSeq(arg.s, IsPlainLetterOrDigit)
        /\ \A i \in 1..Len(arg.s) : \A j \in i..Len(arg.s) :
              AllOf(SubSeq(arg.s, i, j), IsPlainLetterOrDigit) =>
                  StrContains(out.s, SubSeq(arg.s, i, j))

\* Latin, Cyrillic and CJK words among emoji-range characters: the words came
\* through, the dingbat digit and the star did not
C19_Witness ==
    /\ fn = "clean"
    /\ arg = PyStr(Chars("step ") \o <<10102>> \o Chars(" then ") \o <<9733>>
                   \o Chars(" m") \o <<178>>)
    /\ out = PyStr(Chars("step then m") \o <<178>>)

\* C20: the text clean_text returns has no whitespace at either end and no two
\* whitespace characters next to each other, and the ASCII space is its only
\* whitespace character, also where the removal of an emoji or a special character
\* brought two runs of whitespace together.
C20_SingleSpacesOnly ==
    fn = "clean" =>
        /\ out.s # <<>> => (~IsSpace(out.s[1]) /\ ~IsSpace(out.s[Len(out.s)]))
        /\ \A i \in 1..(Len(out.s) - 1) : ~(IsSpace(out.s[i]) /\ IsSpace(out.s[i + 1]))
        /\ \A i \in 1..Len(out.s) : IsSpace(out.s[i]) => out.s[i] = 32

\* the input has a removed symbol and an emoji, each between two runs of whitespace,
\* newlines among them, and whitespace at its end; single spaces came out
C20_Witness ==
    /\ fn = "clean"
    /\ arg = PyStr(Chars("I   loved ") \o <<128522>>
                   \o Chars(" this product!!!  \n\n  #amazing @company"))
    /\ out = PyStr(Chars("I loved this product!!! amazing company"))

\* the text concatenate_review_text puts in for an argument: "" for an absent or
\* empty one
PartOf(v) == IF v = PyNone \/ v = PyStr(<<>>) THEN <<>> ELSE PyStrOf(v)

\* C21: concatenate_review_text(title, body) takes an absent or empty title or body
\* as "", joins the two with one space and trims: (None, None) gives "", (T, None)
\* gives T and (None, B) gives B for trimmed T and B, and the result neither begins
\* nor ends with whitespace.
C21_ConcatenateJoinsAndTrims ==
    fn = "concatenate" =>
        LET title == arg.vals[1]
            body == arg.vals[2]
        IN  /\ out = PyStr(Strip(PartOf(title) \o <<32>> \o PartOf(body)))
            /\ (PartOf(title) = <<>> /\ PartOf(body) = <<>>) => out.s = <<>>
            /\ (PartOf(body) = <<>> /\ Strip(PartOf(title)) = PartOf(title)) => out.s = PartOf(title)
            /\ (PartOf(title) = <<>> /\ Strip(PartOf(body)) = PartOf(body)) => out.s = PartOf(body)
            /\ out.s # <<>> => (~IsSpace(out.s[1]) /\ ~IsSpace(out.s[Len(out.s)]))

\* a title with no body came back as the title, without the joining space
C21_Witness ==
    /\ fn = "concatenate"
    /\ arg = PyList(<<PyStr(Chars("Title text")), PyNone>>)
    /\ out = PyStr(Chars("Title text"))

\* the document read back from `file` is the one built from `recs` and `m`: metadata
\* with total_reviews and model_used, and the records in the given order
HoldsDocument(read, recs, m) ==
    /\ read.ok
    /\ read.val.t = "dict"
    /\ read.val.keys = <<Chars("metadata"), Chars("reviews")>>
    /\ DictGet(read.val, Chars("metadata")).t = "dict"
    /\ HasKey(DictGet(read.val, Chars("metadata")), Chars("generated_at"))
    /\ DictGet(DictGet(read.val, Chars("metadata")), Chars("total_reviews")) = PyInt(Len(recs))
    /\ DictGet(DictGet(read.val, Chars("metadata")), Chars("model_used")) = PyStr(m)
    /\ DictGet(read.val, Chars("reviews")) = PyList(recs)

\* C22: after a successful save_structured_reviews_to_json(records, destination) the
\* parent directory of the destination exists, with the directories above it, and
\* the destination holds a JSON document whose metadata.total_reviews is the number
\* of records given, whose metadata.model_used is the processor's model and whose
\* reviews array holds the given records in the given order.
C22_SavedDocumentHoldsRecords ==
    save_result = "ok" =>
        /\ Dirname(save_call.output_file) # <<>> =>
              \A i \in 1..Len(save_call.output_file) :
                  save_call.output_file[i] = 47 =>
                      SubSeq(save_call.output_file, 1, i - 1) \in dirs
        /\ files[save_call.output_file].exists
        /\ HoldsDocument(JsonLoads(files[save_call.output_file].content),
                         save_call.reviews, model)

\* two records, the second one first, were saved to a destination in a directory
\* that did not exist, by a processor with another model than the default
C22_Witness ==
    /\ save_result = "ok"
    /\ saves = 1
    /\ save_prev = NoFile
    /\ model = Chars("mistral")
    /\ save_call.output_file = Chars("out/run1/reviews.json")
    /\ save_call.reviews = <<SavedRecords[2], SavedRecords[1]>>
    /\ Chars("out/run1") \in dirs
    /\ files[Chars("out/run1/reviews.json")].exists

\* C23: persistence is the only fatal operation. A call of
\* save_structured_reviews_to_json reports success exactly when no step of it failed:
\* when os.makedirs, open or the write fails it raises. process_multiple_reviews has
\* no raising outcome: every failed summarizer call and every error raised by
\* process_review is recorded in the record of its position, and the batch returns one
\* record per input.
C23_OnlyPersistenceIsFatal ==
    /\ (save_result = "ok") <=> (save_call.io = "ok")
    /\ save_call.io \in {"makedirs_fails", "open_fails", "write_fails"} => save_result = "raised"
    /\ pc \in {"loop", "call", "done", "saved"}
    /\ Len(processed_reviews) = Len(replies)
    /\ \A i \in 1..Len(replies) :
          /\ replies[i].kind \in {"request_exception", "exception"}
                => HasKey(processed_reviews[i], SummaryError)
          /\ replies[i].kind = "fault" => HasKey(processed_reviews[i], ProcessingError)
    /\ pc \in {"done", "saved"} => Len(processed_reviews) = Len(reviews)

C23_Witness ==
    /\ pc = "saved"
    /\ save_result = "raised"
    /\ save_call.io = "write_fails"
    /\ Len(processed_reviews) = 3
    /\ \E i, j \in 1..Len(replies) :
          replies[i].kind = "fault" /\ replies[j].kind = "request_exception"

C26_NoErrorOnlyForParsedObject ==
    (/\ op = "extract"
     /\ ~IsBlankSummary(summary)
     /\ ~raised
     /\ ~HasKey(ret, ExtractionError))
        => info.t = "dict"

\* C27: after a successful save the destination holds exactly the text of the document
\* built from the records of that call, whatever it held before: it parses as one
\* JSON document, that document has the records of the last call, and nothing of the
\* earlier content is left before or after it.
C27_LastSaveReplacesDocument ==
    save_result = "ok" =>
        /\ files[save_call.output_file] =
              [exists |-> TRUE,
               content |-> JsonDumps(OutputData(save_call.reviews, Now(saves - 1), model), 0)]
        /\ JsonLoads(files[save_call.output_file].content).ok
        /\ DictGet(JsonLoads(files[save_call.output_file].content).val, Chars("reviews"))
              = PyList(save_call.reviews)

\* the second save to a destination that held a longer document
C27_Witness ==
    /\ save_result = "ok"
    /\ saves = 2
    /\ save_prev.exists
    /\ Len(save_prev.content) > Len(files[save_call.output_file].content)
    /\ JsonLoads(save_prev.content).ok
    /\ save_call.reviews = <<SavedRecords[1]>>

\* C28: process_multiple_reviews handles the records one at a time, in order. The
\* records before position idx, and only they, have been appended, each once; while
\* the endpoint call of record idx is in flight nothing of a later record exists; a
\* step moves to the next record only by appending the current one; the record of a
\* position is determined by its own input and its own reply, whatever came before;
\* and, every endpoint call returning or failing in the end, the batch returns.
C28_OneRecordAtATimeAndReturns ==
    /\ [](/\ Len(processed_reviews) = idx - 1
          /\ Len(replies) = idx - 1
          /\ idx <= Len(reviews) + 1
          /\ pc = "call" => idx <= Len(reviews)
          /\ pc = "done" => idx = Len(reviews) + 1
          /\ \A i \in 1..Len(processed_reviews) :
                processed_reviews[i] =
                   IF NeedsSummary(reviews[i], summarize)
                   THEN Summarized(NormalizedRecord(reviews[i]),
                                   SummarizeWithOllama(CleanedOf(reviews[i]), 2, replies[i]))
                   ELSE NormalizedRecord(reviews[i]))
    /\ [][/\ idx' \in {idx, idx + 1}
          /\ idx' = idx + 1 =>
                /\ SubSeq(processed_reviews', 1, idx - 1) = processed_reviews
                /\ SubSeq(replies', 1, idx - 1) = replies
          /\ idx' = idx => processed_reviews' = processed_reviews /\ replies' = replies
          /\ reviews' = reviews]_vars
    /\ <>(pc = "done")

C28_Witness ==
    /\ pc = "done"
    /\ Len(processed_reviews) = 3
    /\ replies[1].kind = "ok"
    /\ replies[2].kind = "exception"
    /\ replies[3].kind = "ok"
    /\ replies[3] # replies[1]
    /\ calls = 3

\* C29: a record whose text is stored under body and not under selftext is processed
\* as the same record with that text under selftext: concatenated_text is the title
\* joined with the body text, and cleaned_text is that text cleaned.
C29_BodyFieldIsRead ==
    \A i \in 1..Len(processed_reviews) :
        (/\ HasKey(reviews[i], Chars("body"))
         /\ ~HasKey(reviews[i], Selftext))
            => /\ DictGet(processed_reviews[i], ConcatenatedText) =
                     PyStr(ConcatenateReviewText(GetOrEmpty(reviews[i], Title),
                                                 DictGet(reviews[i], Chars("body"))))
               /\ DictGet(processed_reviews[i], CleanedText) =
                     PyStr(CleanText(PyStr(ConcatenateReviewText(
                               GetOrEmpty(reviews[i], Title),
                               DictGet(reviews[i], Chars("body"))))))

====
